---- MODULE Spec2Model ----
(***************************************************************************)
(* A model of the chrome-agent core of kxbnb/nanoclaw: the CDP transport   *)
(* and correlator (cdp-client.ts), the tab manager (tab-manager.ts), the   *)
(* agent object (index.ts), reference resolution (actions.ts,              *)
(* accessibility.ts) and the network-idle wait (navigation.ts).            *)
(*                                                                         *)
(* Three specifications share the transport:                               *)
(*   SpecCdp   - raw callers issue concurrent send() calls on one client;  *)
(*   SpecAgent - one sequential caller drives a ChromeAgent;               *)
(*   SpecIdle  - one waitForNetworkIdle call, with time counted in ticks.  *)
(***************************************************************************)
EXTENDS Integers, Sequences, FiniteSets, TLC

(***************************************************************************)
(* Bounds of the explored behaviours.                                      *)
(***************************************************************************)
\* SpecCdp: send() calls that get an id (ids 1..MaxId are allocated).
MaxId == 4

RawCallers == {"c1", "c2", "c3"}
AgentCaller == "agent"
Callers == RawCallers \cup {AgentCaller}

(***************************************************************************)
(* Values.                                                                 *)
(***************************************************************************)
NoSession == "none"

\* A field that is undefined in a message or an argument.
Undef == "undefined"

\* new Error("CDP socket not open"), send()
NotOpenError == "CDP socket not open"
\* new Error("CDP socket closed"), ws.on("close")
SocketClosedError == "CDP socket closed"
\* the Error the ws library hands to ws.on("error")
WsError == "ws error"

\* msg.error of an inbound response: absent, present with an empty or missing
\* message, present with a message.
ErrPayloads ==
    { [present |-> FALSE, message |-> ""],
      [present |-> TRUE, message |-> ""],
      [present |-> TRUE, message |-> "protocol error"] }

NoErr == [present |-> FALSE, message |-> ""]
ProtoErr == [present |-> TRUE, message |-> "protocol error"]

\* send() called without params
NoParams == [k |-> "none"]

NoResult == [k |-> "none"]
OkResult == [k |-> "ok"]

\* The promise returned by one send() call, as its caller sees it.
\*   state  idle | suspended | resolved | rejected
\*   id     the id the call was assigned (0: none)
\*   by     the id of the response that settled it (0: none, -1: teardown)
\*   n      how many times its resolve/reject continuation was invoked
IdleCall ==
    [state |-> "idle", id |-> 0, method |-> "", by |-> 0, err |-> "",
     result |-> NoResult, n |-> 0]

VARIABLES
    readyState,   \* ws.readyState: CONNECTING | OPEN | CLOSING | CLOSED
    wsErrored,    \* the socket has emitted its 'error' event
    nextId,       \* createCdpClient: let nextId
    pending,      \* createCdpClient: pending, id -> the caller suspended on it
    listeners,    \* createCdpClient: listeners, event -> set of handlers
    sent,         \* the messages handed to ws.send, in order
    calls,        \* caller -> the promise of its current send() call
    tabs,             \* createTabManager: tabs, tabId -> TabInfo
    currentTabId,     \* ChromeAgent.currentTabId
    currentSessionId, \* ChromeAgent.currentSessionId
    refs,             \* ChromeAgent.refs, token -> backendDOMNodeId
    pc,               \* where the agent's caller is suspended ("idle": nowhere)
    op,               \* the running public operation and its local variables
    ret,              \* how the last public operation ended
    targets,          \* the browser's targets: unborn | alive | dead
    snapValid,        \* a snapshot completed on the current session and no
                      \* page-changing command or tab switch followed it
    snapMap,          \* the map of the most recent completed snapshot
    inflight,         \* waitForNetworkIdle: let inflight
    timer,            \* waitForNetworkIdle: ticks until the idle timer fires
    timeout,          \* waitForNetworkIdle: ticks until the overall timeout fires
    resolved,         \* how many times the wait's resolve() was called
    sinceFinish,      \* ticks since the last finish or fail event, while no
                      \* request has started after it
    sinceSetup,       \* ticks since the wait set up its timers
    counted,          \* the last finish or fail event ended a request that
                      \* the wait had counted
    disc,             \* a discoverWsUrl call: its promise and its timer
    fan,              \* the last dispatchEvent to a caller's handlers
    ax,               \* a call of formatAriaSnapshot and buildSnapshot on its own
    dom               \* the browser's node behind a token: whether it resolves
                      \* to an object, whether it has geometry

cdpVars == <<readyState, wsErrored, nextId, pending, listeners, sent, calls>>

idleVars == <<inflight, timer, timeout, resolved, sinceFinish, sinceSetup,
              counted>>

\* What the operations of the agent leave alone.
restVars == <<idleVars, disc, fan, ax, dom>>

agentVars == <<tabs, currentTabId, currentSessionId, refs, pc, op, ret,
               targets, snapValid, snapMap, restVars>>

vars == <<cdpVars, agentVars>>

(***************************************************************************)
(* Helpers.                                                                *)
(***************************************************************************)
EmptyMap == <<>>

MapRemove(f, k) ==
    IF DOMAIN f \subseteq {k} THEN EmptyMap ELSE [x \in (DOMAIN f) \ {k} |-> f[x]]

\* Map.set(k, v)
MapSet(f, k, v) == (k :> v) @@ f

Min(S) == CHOOSE x \in S : \A y \in S : x <= y

(***************************************************************************)
(* cdp-client.ts: createCdpClient                                          *)
(***************************************************************************)

\* WebSocket.close() as the ws library implements it: a no-op on a closed or
\* closing socket, otherwise the socket starts closing.
WsClose(rs) == IF rs \in {"CLOSED", "CLOSING"} THEN rs ELSE "CLOSING"

\* p.reject(err) / p.resolve(value): a promise settles once; a later call of
\* either continuation changes nothing.
Reject(call, by, err) ==
    IF call.state = "suspended"
    THEN [call EXCEPT !.state = "rejected", !.by = by, !.err = err, !.n = @ + 1]
    ELSE [call EXCEPT !.n = @ + 1]

Resolve(call, by, result) ==
    IF call.state = "suspended"
    THEN [call EXCEPT !.state = "resolved", !.by = by, !.result = result,
                      !.n = @ + 1]
    ELSE [call EXCEPT !.n = @ + 1]

\* The promise has been resolved or rejected.
Settled(call) == call.state \in {"resolved", "rejected"}

\* send(): the guard of line 693 changed to refuse only a closed socket.
SendClosedOnly(c, method, params, sessionId) ==
    IF readyState = "CLOSED"
    THEN /\ calls' = [calls EXCEPT ![c] =
                [IdleCall EXCEPT !.state = "rejected", !.method = method,
                                 !.err = NotOpenError]]
         /\ UNCHANGED <<nextId, pending, sent>>
    ELSE /\ nextId' = nextId + 1
         /\ sent' = Append(sent, [id |-> nextId, method |-> method,
                                  params |-> params, sessionId |-> sessionId])
         /\ pending' = MapSet(pending, nextId, c)
         /\ calls' = [calls EXCEPT ![c] =
                [IdleCall EXCEPT !.state = "suspended", !.id = nextId,
                                 !.method = method]]

\* send() that does not advance the id counter.
SendReusesId(c, method, params, sessionId) ==
    IF readyState # "OPEN"
    THEN /\ calls' = [calls EXCEPT ![c] =
                [IdleCall EXCEPT !.state = "rejected", !.method = method,
                                 !.err = NotOpenError]]
         /\ UNCHANGED <<nextId, pending, sent>>
    ELSE /\ nextId' = nextId
         /\ sent' = Append(sent, [id |-> nextId, method |-> method,
                                  params |-> params, sessionId |-> sessionId])
         /\ pending' = MapSet(pending, nextId, c)
         /\ calls' = [calls EXCEPT ![c] =
                [IdleCall EXCEPT !.state = "suspended", !.id = nextId,
                                 !.method = method]]

\* send(method, params, sessionId) called by c.
Send(c, method, params, sessionId) ==
    IF readyState # "OPEN"
    THEN /\ calls' = [calls EXCEPT ![c] =
                [IdleCall EXCEPT !.state = "rejected", !.method = method,
                                 !.err = NotOpenError]]
         /\ UNCHANGED <<nextId, pending, sent>>
    ELSE /\ nextId' = nextId + 1
         /\ sent' = Append(sent, [id |-> nextId, method |-> method,
                                  params |-> params, sessionId |-> sessionId])
         /\ pending' = MapSet(pending, nextId, c)
         /\ calls' = [calls EXCEPT ![c] =
                [IdleCall EXCEPT !.state = "suspended", !.id = nextId,
                                 !.method = method]]

\* The response branch of ws.on("message") changed to settle the oldest
\* pending call whatever id the response carries.
HandleResponseOldest(id, err, result) ==
    IF DOMAIN pending # {}
    THEN LET k == Min(DOMAIN pending)
             c == pending[k]
         IN  /\ pending' = MapRemove(pending, k)
             /\ calls' = [calls EXCEPT ![c] =
                    IF err.present /\ err.message # ""
                    THEN Reject(@, id, err.message)
                    ELSE Resolve(@, id, result)]
    ELSE UNCHANGED <<pending, calls>>

\* ws.on("message"), a message with a numeric id: the response to a request.
HandleResponse(id, err, result) ==
    IF id \in DOMAIN pending
    THEN LET c == pending[id]
         IN  /\ pending' = MapRemove(pending, id)
             /\ calls' = [calls EXCEPT ![c] =
                    IF err.present /\ err.message # ""
                    THEN Reject(@, id, err.message)
                    ELSE Resolve(@, id, result)]
    ELSE UNCHANGED <<pending, calls>>

\* closeWithError without the loop that rejects the pending calls.
CloseWithErrorNoReject(err, rs) ==
    /\ calls' = calls
    /\ pending' = EmptyMap
    /\ readyState' = WsClose(rs)

\* closeWithError without pending.clear().
CloseWithErrorKeepsPending(err, rs) ==
    /\ calls' = [c \in Callers |->
            IF \E id \in DOMAIN pending : pending[id] = c
            THEN Reject(calls[c], -1, err)
            ELSE calls[c]]
    /\ pending' = pending
    /\ readyState' = WsClose(rs)

\* closeWithError(err), run from the socket's 'error' and 'close' events. The
\* ws library has already moved readyState to rs when it emits either event,
\* and the handler's ws.close() acts on that value.
CloseWithError(err, rs) ==
    /\ calls' = [c \in Callers |->
            IF \E id \in DOMAIN pending : pending[id] = c
            THEN Reject(calls[c], -1, err)
            ELSE calls[c]]
    /\ pending' = EmptyMap
    /\ readyState' = WsClose(rs)

\* on(event, handler)
On(ls, event, handler) ==
    IF event \in DOMAIN ls
    THEN [ls EXCEPT ![event] = @ \cup {handler}]
    ELSE MapSet(ls, event, {handler})

\* off(event, handler)
Off(ls, event, handler) ==
    IF event \in DOMAIN ls
    THEN [ls EXCEPT ![event] = @ \ {handler}]
    ELSE ls

\* The result is an object that has the field.
Has(result, f) == f \in DOMAIN result

\* result?.field
Field(result, f) == IF f \in DOMAIN result THEN result[f] ELSE Undef

\* ws.on("error"): the ws library marks the socket closing, then emits 'error'.
SocketError ==
    /\ readyState \in {"CONNECTING", "OPEN"}
    /\ ~wsErrored
    /\ wsErrored' = TRUE
    /\ CloseWithError(WsError, "CLOSING")
    /\ UNCHANGED <<nextId, listeners, sent>>
    /\ UNCHANGED agentVars

\* ws.on("close"): emitted once, when the socket has closed (after an error,
\* after a close() of either side, or when the connection drops).
SocketClose ==
    /\ readyState \in {"OPEN", "CLOSING"}
    /\ CloseWithError(SocketClosedError, "CLOSED")
    /\ UNCHANGED <<wsErrored, nextId, listeners, sent>>
    /\ UNCHANGED agentVars

\* The socket's 'open' event (connectCdp waits for it).
SocketOpen ==
    /\ readyState = "CONNECTING"
    /\ readyState' = "OPEN"
    /\ UNCHANGED <<wsErrored, nextId, pending, listeners, sent, calls>>
    /\ UNCHANGED agentVars

\* close() of the client.
ClientClose ==
    /\ pending' = EmptyMap
    /\ readyState' = WsClose(readyState)
    /\ UNCHANGED <<wsErrored, nextId, listeners, sent, calls>>
    /\ UNCHANGED agentVars

\* ws.on("message") for a response {id, result} or {id, error}. Frames keep
\* arriving while the socket is closing.
OnResponse(id, err, result) ==
    /\ readyState \in {"OPEN", "CLOSING"}
    /\ HandleResponse(id, err, result)
    /\ UNCHANGED <<readyState, wsErrored, nextId, listeners, sent>>
    /\ UNCHANGED agentVars

(***************************************************************************)
(* Values of the tab manager and the agent.                                *)
(***************************************************************************)
TargetIds == {"T1", "T2"}

NoTab == "none"

\* The session the browser opens when the client attaches to a target.
SessionOf(t) == IF t = "T1" THEN "S1" ELSE "S2"

Sessions == {SessionOf(t) : t \in TargetIds}

\* Handlers in the listener registry. Each navigate/reload call registers a
\* closure of its own: n tells the closures apart.
HDestroyed == [h |-> "onTargetDestroyed", n |-> 0]
HInfoChanged == [h |-> "onTargetInfoChanged", n |-> 0]
HLoad(n) == [h |-> "load", n |-> n]
HRequest == [h |-> "onRequest", n |-> 0]
HFinish == [h |-> "onFinish", n |-> 0]

\* The local variables of a public operation of the agent.
NoOp ==
    [name |-> "", ref |-> <<>>, node |-> 0, tab |-> NoTab, wasCurrent |-> FALSE,
     url |-> Undef, checked |-> FALSE, loaded |-> FALSE, loadBy |-> NoSession,
     h |-> 0, objectId |-> Undef, x |-> 0, y |-> 0, idleMs |-> 0,
     timeoutMs |-> 0, cookies |-> <<>>, k |-> 0]

\* How a public operation ended, as its caller sees it when the operation's
\* promise settles: returned ("ok") or threw ("error", with err). hadRefs tells
\* whether the reference map held a token when the operation's last step began.
NoRet ==
    [op |-> "", outcome |-> "", err |-> "", ref |-> <<>>, tab |-> NoTab,
     wasCurrent |-> FALSE, hadRefs |-> FALSE]

\* No timer is armed / the counter does not run.
NoTimer == -1

\* No discoverWsUrl call is in progress. state is where the call is, timer is
\* its 5 s timer: none | armed | cleared | fired.
NoDisc == [state |-> "off", timer |-> "none", err |-> ""]

\* No call of formatAriaSnapshot / buildSnapshot on its own.
\*   stage  off | input | formatted | built
\*   nodes  the raw nodes, limit the limit
\*   out    the result of formatAriaSnapshot(nodes, limit)
\*   snap   the result of buildSnapshot(out)
\* or of parseRef on its own (stage raw | parsed):
\*   raw    the string passed, parsed the result of parseRef(raw)
\* or of snapshot's limit computation before them (stage request):
\*   req    opts?.limit as the caller passed it
NoRequest == [k |-> "direct", twice |-> 0]

NoAx ==
    [stage |-> "off", nodes |-> <<>>, limit |-> 0, out |-> <<>>,
     snap |-> [lines |-> <<>>, refs |-> <<>>], raw |-> <<>>, parsed |-> <<>>,
     req |-> NoRequest]

\* No event has been dispatched to a caller's handlers yet.
\*   method   the method of the last event dispatched
\*   before   the handlers registered for it when the message arrived
\*   invoked  the handlers dispatchEvent called, in order
\*   threw    a handler threw in that dispatch
\*   earlier  a handler threw in the dispatch before it
NoFan ==
    [method |-> "", before |-> {}, invoked |-> <<>>, threw |-> FALSE,
     earlier |-> FALSE]

\* What is known of the node the tokens stand for: "yes", "no", or "any" when
\* the browser may answer either way.
DomAny == [handle |-> "any", geometry |-> "any"]
DomStates == [handle : {"yes", "no"}, geometry : {"yes", "no"}]

\* No waitForNetworkIdle is in progress.
NoWait ==
    /\ inflight = 0
    /\ timer = NoTimer
    /\ timeout = NoTimer
    /\ resolved = 0
    /\ sinceFinish = NoTimer
    /\ sinceSetup = NoTimer
    /\ counted = FALSE

\* The agent and its tab manager before ChromeAgent.connect.
NoAgent ==
    /\ NoWait
    /\ disc = NoDisc
    /\ fan = NoFan
    /\ ax = NoAx
    /\ dom = DomAny
    /\ tabs = EmptyMap
    /\ currentTabId = NoTab
    /\ currentSessionId = NoSession
    /\ refs = EmptyMap
    /\ pc = "off"
    /\ op = NoOp
    /\ ret = NoRet
    /\ targets = [t \in TargetIds |-> "unborn"]
    /\ snapValid = FALSE
    /\ snapMap = EmptyMap

(***************************************************************************)
(* SpecCdp: raw callers on one client.                                     *)
(***************************************************************************)
RawMethod == "Raw.command"

\* A caller invokes send() and suspends on the promise.
RawSend(c) ==
    /\ calls[c].state = "idle"
    /\ nextId <= MaxId
    /\ Send(c, RawMethod, NoParams, NoSession)
    /\ UNCHANGED <<readyState, wsErrored, listeners>>
    /\ UNCHANGED agentVars

\* The caller's continuation runs with the settled promise; the caller is free
\* to call again.
RawReturn(c) ==
    /\ calls[c].state \in {"resolved", "rejected"}
    /\ calls' = [calls EXCEPT ![c] = IdleCall]
    /\ UNCHANGED <<readyState, wsErrored, nextId, pending, listeners, sent>>
    /\ UNCHANGED agentVars

InitCdp ==
    /\ readyState = "CONNECTING"
    /\ wsErrored = FALSE
    /\ nextId = 1
    /\ pending = EmptyMap
    /\ listeners = EmptyMap
    /\ sent = <<>>
    /\ calls = [c \in Callers |-> IdleCall]
    /\ NoAgent

NextCdp ==
    \/ SocketOpen
    \/ SocketError
    \/ SocketClose
    \/ ClientClose
    \/ \E c \in RawCallers : RawSend(c)
    \/ \E c \in RawCallers : RawReturn(c)
    \/ \E id \in 1..MaxId, err \in ErrPayloads : OnResponse(id, err, OkResult)

SpecCdp == InitCdp /\ [][NextCdp]_vars


(***************************************************************************)
(* accessibility.ts: parseRef, formatAriaSnapshot, buildSnapshot.          *)
(* A string that the code inspects character by character is a sequence of *)
(* one-character strings.                                                  *)
(***************************************************************************)
Digits == {"0", "1", "2", "3", "4", "5", "6", "7", "8", "9"}

\* The characters String.prototype.trim removes (those the model's inputs use).
Whitespace == {" ", "\t", "\n"}

RECURSIVE TrimStart(_)
TrimStart(str) ==
    IF str # <<>> /\ Head(str) \in Whitespace THEN TrimStart(Tail(str)) ELSE str

RECURSIVE TrimEnd(_)
TrimEnd(str) ==
    IF str # <<>> /\ str[Len(str)] \in Whitespace
    THEN TrimEnd(SubSeq(str, 1, Len(str) - 1))
    ELSE str

\* raw.trim()
Trim(str) == TrimEnd(TrimStart(str))

\* /^e\d+$/.test(str)
MatchesRefPattern(str) ==
    /\ Len(str) >= 2
    /\ str[1] = "e"
    /\ \A i \in 2..Len(str) : str[i] \in Digits

\* parseRef's null
NoRef == <<"null">>

\* parseRef with the letter test dropped: any character followed by digits.
ParseRefAnyLetter(raw) ==
    LET trimmed == Trim(raw)
        normalized == IF trimmed # <<>> /\ Head(trimmed) = "@"
                      THEN Tail(trimmed) ELSE trimmed
    IN  IF trimmed = <<>> THEN NoRef
        ELSE IF /\ Len(normalized) >= 2
                /\ \A i \in 2..Len(normalized) : normalized[i] \in Digits
             THEN normalized ELSE NoRef

\* parseRef(raw): the canonical token, or NoRef.
ParseRef(raw) ==
    LET trimmed == Trim(raw)
        normalized == IF trimmed # <<>> /\ Head(trimmed) = "@"
                      THEN Tail(trimmed) ELSE trimmed
    IN  IF trimmed = <<>> THEN NoRef
        ELSE IF MatchesRefPattern(normalized) THEN normalized ELSE NoRef

\* The decimal digits of n >= 0, as String(n) writes them.
DigitChar(d) ==
    CASE d = 0 -> "0" [] d = 1 -> "1" [] d = 2 -> "2" [] d = 3 -> "3"
      [] d = 4 -> "4" [] d = 5 -> "5" [] d = 6 -> "6" [] d = 7 -> "7"
      [] d = 8 -> "8" [] OTHER -> "9"

RECURSIVE NumToStr(_)
NumToStr(n) ==
    IF n < 10 THEN <<DigitChar(n)>>
    ELSE Append(NumToStr(n \div 10), DigitChar(n % 10))

\* The token of the counter's next value instead of its own.
RefTokenAhead(n) == <<"e">> \o NumToStr(n + 1)

\* `e${refCounter}`
RefToken(n) == <<"e">> \o NumToStr(n)

INTERACTIVE_ROLES ==
    {"button", "link", "textbox", "checkbox", "radio", "combobox", "listbox",
     "menuitem", "menuitemcheckbox", "menuitemradio", "option", "searchbox",
     "slider", "spinbutton", "switch", "tab", "treeitem"}

CONTENT_ROLES ==
    {"heading", "cell", "gridcell", "columnheader", "rowheader", "listitem",
     "article", "region", "main", "navigation"}

STRUCTURAL_ROLES ==
    {"generic", "group", "list", "table", "row", "rowgroup", "grid",
     "treegrid", "menu", "menubar", "toolbar", "tablist", "tree", "directory",
     "document", "application", "presentation", "none"}

\* role.toLowerCase(), on the role names that carry capitals.
ToLowerCase(role) ==
    CASE role = "StaticText" -> "statictext"
      [] role = "InlineTextBox" -> "inlinetextbox"
      [] role = "RootWebArea" -> "rootwebarea"
      [] role = "Button" -> "button"
      [] OTHER -> role

\* An AX property {value?: unknown} of a raw node:
\*   [t |-> "absent"], [t |-> "str", v |-> s], [t |-> "num", v |-> n],
\*   [t |-> "bool", v |-> b], [t |-> "other"]
AxAbsent == [t |-> "absent", v |-> ""]
AxStr(str) == [t |-> "str", v |-> str]

\* String(value) of a number or boolean, kept as one name/value string.
NumName(n) ==
    CASE n = 0 -> "0" [] n = 1 -> "1" [] n = 2 -> "2" [] OTHER -> "3"

\* axValue(v)
AxValue(v) ==
    CASE v.t = "str" -> v.v
      [] v.t = "num" -> NumName(v.v)
      [] v.t = "bool" -> (IF v.v THEN "true" ELSE "false")
      [] OTHER -> ""

\* A raw node: [nodeId, role, name, value, description, childIds, backend];
\* nodeId "" stands for a missing nodeId, backend 0 for a backendDOMNodeId
\* that is not a number.
RawNode(id, role, name, children, backend) ==
    [nodeId |-> id, role |-> AxStr(role), name |-> AxStr(name),
     value |-> AxAbsent, description |-> AxAbsent, childIds |-> children,
     backend |-> backend]

\* byId: the last raw node carrying each nodeId (Map.set overwrites).
ById(nodes, id) ==
    LET idx == {i \in 1..Len(nodes) : nodes[i].nodeId = id /\ id # ""}
    IN  IF idx = {} THEN 0 ELSE CHOOSE i \in idx : \A j \in idx : j <= i

Range(seq) == {seq[i] : i \in 1..Len(seq)}

\* referenced: every id some node lists as a child.
Referenced(nodes) == UNION {Range(nodes[i].childIds) : i \in 1..Len(nodes)}

\* nodes.find(n => n.nodeId && !referenced.has(n.nodeId)) ?? nodes[0]; 0 when
\* there is no root or it has no nodeId.
RootIndex(nodes) ==
    LET free == {i \in 1..Len(nodes) :
                    nodes[i].nodeId # "" /\ nodes[i].nodeId \notin Referenced(nodes)}
        r == IF free # {} THEN Min(free) ELSE IF Len(nodes) > 0 THEN 1 ELSE 0
    IN  IF r = 0 \/ nodes[r].nodeId = "" THEN 0 ELSE r

\* The children without the filter on byId.
AllChildren(nodes, childIds) == childIds

\* (n.childIds ?? []).filter((c) => byId.has(c))
KnownChildren(nodes, childIds) ==
    LET F[i \in 0..Len(childIds)] ==
            IF i = 0 THEN <<>>
            ELSE IF ById(nodes, childIds[i]) # 0
                 THEN Append(F[i - 1], childIds[i])
                 ELSE F[i - 1]
    IN  F[Len(childIds)]

\* The children pushed first to last instead of last to first.
NotReversed(seq) == seq

\* for (let i = children.length - 1; i >= 0; i--): last child first.
Reverse(seq) == [i \in 1..Len(seq) |-> seq[Len(seq) + 1 - i]]

\* One turn of formatAriaSnapshot's while loop; st is [stack, out], the stack
\* holds [id, depth] with its top last.  When the loop's condition is false
\* st is left as it is.
TraverseBody(nodes, limit, st) ==
    IF st.stack = <<>> \/ Len(st.out) >= limit THEN st
    ELSE LET popped == st.stack[Len(st.stack)]
             rest == SubSeq(st.stack, 1, Len(st.stack) - 1)
             k == ById(nodes, popped.id)
         IN  IF k = 0 THEN [stack |-> rest, out |-> st.out]
             ELSE LET n == nodes[k]
                      role == AxValue(n.role)
                      entry == [role |-> IF role = "" THEN "unknown" ELSE role,
                                name |-> AxValue(n.name),
                                value |-> AxValue(n.value),
                                description |-> AxValue(n.description),
                                backend |-> n.backend,
                                depth |-> popped.depth]
                      children == KnownChildren(nodes, n.childIds)
                      pushed == [i \in 1..Len(children) |->
                                    [id |-> Reverse(children)[i],
                                     depth |-> popped.depth + 1]]
                  IN  [stack |-> rest \o pushed, out |-> Append(st.out, entry)]

\* turns consecutive turns of the loop, halved so that long walks stay
\* shallow.
RECURSIVE TraverseTimes(_, _, _, _)
TraverseTimes(nodes, limit, st, turns) ==
    IF turns <= 0 THEN st
    ELSE IF turns = 1 THEN TraverseBody(nodes, limit, st)
    ELSE LET half == turns \div 2
             mid == TraverseTimes(nodes, limit, st, half)
         IN  IF mid.stack = <<>> \/ Len(mid.out) >= limit THEN mid
             ELSE TraverseTimes(nodes, limit, mid, turns - half)

\* The while loop of formatAriaSnapshot.  A turn that pops an id byId holds
\* appends an entry, one that pops an unknown id shortens the stack, so the
\* loop has ended after limit + Len(stack) + Len(nodes) turns at most (only
\* the ids of the first stack can be unknown: children are filtered).
Traverse(nodes, limit, stack, out) ==
    TraverseTimes(nodes, limit, [stack |-> stack, out |-> out],
                  limit + Len(stack) + Len(nodes)).out

\* formatAriaSnapshot(nodes, limit)
FormatAriaSnapshot(nodes, limit) ==
    LET r == RootIndex(nodes)
    IN  IF r = 0 THEN <<>>
        ELSE Traverse(nodes, limit, <<[id |-> nodes[r].nodeId, depth |-> 0]>>, <<>>)

\* opts?.limit: absent, NaN, or a number given as twice its value (so that
\* halves can be passed).
LimitAbsent == [k |-> "none", twice |-> 0]
LimitNaN == [k |-> "nan", twice |-> 0]
LimitOf(twice) == [k |-> "num", twice |-> twice]

\* opts?.limit ?? 500
DefaultLimit == 500
ClampLow == 1
ClampHigh == 2000

\* snapshot's limit without Math.min(2000, ...).
SnapLimitNoCeiling(req) ==
    IF req.k = "nan" THEN 0
    ELSE LET floored == IF req.k = "none" THEN DefaultLimit ELSE req.twice \div 2
         IN  IF ClampLow > floored THEN ClampLow ELSE floored

\* Math.max(1, Math.min(2000, Math.floor(opts?.limit ?? 500))).  With NaN
\* the result is NaN, and `out.length < limit` is false for every length, as
\* it is with 0: the limit is 0 then.
SnapLimit(req) ==
    IF req.k = "nan" THEN 0
    ELSE LET floored == IF req.k = "none" THEN DefaultLimit ELSE req.twice \div 2
             capped == IF ClampHigh < floored THEN ClampHigh ELSE floored
         IN  IF ClampLow > capped THEN ClampLow ELSE capped

\* buildSnapshot without its first continue (unnamed structural nodes).
SkippedButStructural(node) ==
    LET role == ToLowerCase(node.role)
    IN  \/ role = "unknown" /\ node.name = ""
        \/ role = "none" \/ role = "presentation"
        \/ role = "statictext" \/ role = "InlineTextBox"

\* Whether buildSnapshot skips the node (its four continue statements).
Skipped(node) ==
    LET role == ToLowerCase(node.role)
    IN  \/ role \in STRUCTURAL_ROLES /\ node.name = ""
        \/ role = "unknown" /\ node.name = ""
        \/ role = "none" \/ role = "presentation"
        \/ role = "statictext" \/ role = "InlineTextBox"

\* shouldHaveRef alone, without the test of backendDOMNodeId.
GetsRefWithoutHandle(node) ==
    LET role == ToLowerCase(node.role)
    IN  role \in INTERACTIVE_ROLES \/ (role \in CONTENT_ROLES /\ node.name # "")

\* shouldHaveRef && typeof node.backendDOMNodeId === "number"
GetsRef(node) ==
    LET role == ToLowerCase(node.role)
    IN  /\ role \in INTERACTIVE_ROLES \/ (role \in CONTENT_ROLES /\ node.name # "")
        /\ node.backend # 0

\* The body of buildSnapshot's loop for one node: the lines, the reference
\* map and refCounter after it, from those before it. A line is
\* [depth, role, name, value, ref], ref <<>> when the line carries no token.
BuildNode(prev, node) ==
    IF Skipped(node) THEN prev
    ELSE IF GetsRef(node)
    THEN LET ref == RefToken(prev.refCounter + 1)
         IN  [lines |-> Append(prev.lines,
                   [depth |-> node.depth, role |-> ToLowerCase(node.role),
                    name |-> node.name, value |-> node.value, ref |-> ref]),
              refs |-> MapSet(prev.refs, ref, node.backend),
              refCounter |-> prev.refCounter + 1]
    ELSE [lines |-> Append(prev.lines,
                   [depth |-> node.depth, role |-> ToLowerCase(node.role),
                    name |-> node.name, value |-> node.value, ref |-> <<>>]),
          refs |-> prev.refs,
          refCounter |-> prev.refCounter]

\* TLC computes a LET definition when it is first needed; comparing the
\* value makes it do so here.
Evaluated(v) == v = v

\* The loop over axNodes[lo..hi] from prev, halved so that long lists stay
\* shallow.
RECURSIVE BuildRange(_, _, _, _)
BuildRange(axNodes, lo, hi, prev) ==
    IF lo > hi THEN prev
    ELSE IF lo = hi THEN BuildNode(prev, axNodes[lo])
    ELSE LET mid == (lo + hi) \div 2
             first == BuildRange(axNodes, lo, mid, prev)
         IN  IF Evaluated(first) THEN BuildRange(axNodes, mid + 1, hi, first)
             ELSE prev

\* buildSnapshot's loop over axNodes[1..i].
BuildLoop(axNodes, i) ==
    BuildRange(axNodes, 1, i, [lines |-> <<>>, refs |-> EmptyMap, refCounter |-> 0])

\* buildSnapshot(axNodes): {text, refs}; text is kept as its lines, and an
\* empty sequence of lines is the text "(empty page)".
BuildSnapshot(axNodes) ==
    LET r == BuildLoop(axNodes, Len(axNodes))
    IN  [lines |-> r.lines, refs |-> r.refs]

\* snapshot(): the limit clamp, then formatAriaSnapshot and buildSnapshot on
\* the nodes of the Accessibility.getFullAXTree result.
SnapshotOf(rawNodes, limit) ==
    LET clamped == IF limit > 2000 THEN 2000 ELSE IF limit < 1 THEN 1 ELSE limit
    IN  BuildSnapshot(FormatAriaSnapshot(rawNodes, clamped))

(***************************************************************************)
(* tab-manager.ts: createTabManager                                        *)
(***************************************************************************)
\* onTargetDestroyed(params)
OnTargetDestroyed(tbl, params) ==
    IF params.targetId # Undef THEN MapRemove(tbl, params.targetId) ELSE tbl

\* onTargetInfoChanged that records a target it does not know.
OnTargetInfoChangedCreates(tbl, params) ==
    IF params.targetId = Undef THEN tbl
    ELSE IF params.targetId \in DOMAIN tbl
    THEN [tbl EXCEPT ![params.targetId] =
            [@ EXCEPT !.url = IF params.url # Undef THEN params.url ELSE @,
                      !.title = IF params.title # Undef THEN params.title ELSE @]]
    ELSE MapSet(tbl, params.targetId,
                [tabId |-> params.targetId, sessionId |-> "",
                 url |-> params.url, title |-> params.title])

\* onTargetInfoChanged(params)
OnTargetInfoChanged(tbl, params) ==
    IF params.targetId = Undef THEN tbl
    ELSE IF params.targetId \in DOMAIN tbl
    THEN [tbl EXCEPT ![params.targetId] =
            [@ EXCEPT !.url = IF params.url # Undef THEN params.url ELSE @,
                      !.title = IF params.title # Undef THEN params.title ELSE @]]
    ELSE tbl

\* attach: tabs.set(targetId, {tabId, sessionId, url: "", title: ""})
AttachRecord(tbl, targetId, sessionId) ==
    MapSet(tbl, targetId,
           [tabId |-> targetId, sessionId |-> sessionId, url |-> "", title |-> ""])

(***************************************************************************)
(* navigation.ts: the closures of waitForNetworkIdle                       *)
(***************************************************************************)
\* checkIdle without the arming of the idle timer.
CheckIdleNoTimer(n, idleMs) == NoTimer

\* checkIdle(): a pending idle timer is cleared, and a new one is armed when
\* nothing is in flight. The result is the idle timer.
CheckIdle(n, idleMs) == IF n <= 0 THEN idleMs ELSE NoTimer

\* onRequest() that leaves a pending idle timer running.
OnRequestKeepsTimer(n) == [inflight |-> n + 1, timer |-> timer]

\* onRequest(): the counter and the idle timer after it.
OnRequest(n) == [inflight |-> n + 1, timer |-> NoTimer]

\* onFinish(): the counter and the idle timer after it.
OnFinish(n, idleMs) ==
    LET m == IF n - 1 > 0 THEN n - 1 ELSE 0
    IN  [inflight |-> m, timer |-> CheckIdle(m, idleMs)]

\* cleanup() without the last of its three off() calls.
CleanupKeepsFailed(ls) ==
    Off(Off(ls, "Network.requestWillBeSent", HRequest),
        "Network.loadingFinished", HFinish)

\* cleanup(): the listener registry without the three network handlers.
Cleanup(ls) ==
    Off(Off(Off(ls, "Network.requestWillBeSent", HRequest),
            "Network.loadingFinished", HFinish),
        "Network.loadingFailed", HFinish)

(***************************************************************************)
(* cdp-client.ts: dispatchEvent, with the handlers the program registers.  *)
(***************************************************************************)
Handlers(method) == IF method \in DOMAIN listeners THEN listeners[method] ELSE {}

\* dispatchEvent(method, params, sessionId): every handler registered for the
\* method runs. A load handler (navigate, reload) unregisters itself and
\* resolves the promise of the call that registered it.
DispatchEvent(method, params, sessionId) ==
    LET hs == Handlers(method)
        loads == {h \in hs : h.h = "load"}
        t1 == IF HDestroyed \in hs THEN OnTargetDestroyed(tabs, params) ELSE tabs
        t2 == IF HInfoChanged \in hs THEN OnTargetInfoChanged(t1, params) ELSE t1
        w == IF HRequest \in hs THEN OnRequest(inflight)
             ELSE IF HFinish \in hs THEN OnFinish(inflight, op.idleMs)
             ELSE [inflight |-> inflight, timer |-> timer]
    IN  /\ tabs' = t2
        /\ listeners' = IF loads = {} THEN listeners
                        ELSE [listeners EXCEPT ![method] = @ \ loads]
        /\ op' = IF HLoad(op.h) \in loads
                 THEN [op EXCEPT !.loaded = TRUE, !.loadBy = sessionId]
                 ELSE op
        /\ inflight' = w.inflight
        /\ timer' = w.timer
        /\ sinceFinish' = IF HRequest \in hs THEN NoTimer
                          ELSE IF HFinish \in hs THEN 0
                          ELSE sinceFinish
        /\ counted' = IF HRequest \in hs THEN FALSE
                      ELSE IF HFinish \in hs THEN inflight > 0
                      ELSE counted

\* ws.on("message") for an event {method, params, sessionId}.
OnEvent(method, params, sessionId) ==
    /\ readyState \in {"OPEN", "CLOSING"}
    /\ DispatchEvent(method, params, sessionId)
    /\ UNCHANGED <<readyState, wsErrored, nextId, pending, sent, calls>>
    /\ UNCHANGED <<currentTabId, currentSessionId, refs, pc, ret, snapValid,
                   snapMap, timeout, resolved, sinceSetup, disc, fan, ax, dom>>

(***************************************************************************)
(* The browser, as far as the agent can tell.                              *)
(***************************************************************************)
TargetParams(t, url, title) == [targetId |-> t, url |-> url, title |-> title]

\* A target goes away (closed by a command, by the user, or crashed); with
\* target discovery on, the browser reports it.
EvTargetDestroyed(t) ==
    /\ targets[t] = "alive"
    /\ targets' = [targets EXCEPT ![t] = "dead"]
    /\ OnEvent("Target.targetDestroyed", TargetParams(t, Undef, Undef), NoSession)

\* A target's url or title changes; the event may lack any of its fields.
EvTargetInfoChanged(t, url, title) ==
    /\ t # Undef => targets[t] = "alive"
    /\ OnEvent("Target.targetInfoChanged", TargetParams(t, url, title), NoSession)
    /\ UNCHANGED targets

\* A page finishes loading in some session.
EvLoad(s) ==
    /\ OnEvent("Page.loadEventFired", NoParams, s)
    /\ UNCHANGED targets

\* A request starts, finishes or fails in some session.
MaxInflight == 2

EvRequest(s) ==
    /\ inflight < MaxInflight
    /\ OnEvent("Network.requestWillBeSent", NoParams, s)
    /\ UNCHANGED targets

EvFinished(s) ==
    /\ OnEvent("Network.loadingFinished", NoParams, s)
    /\ UNCHANGED targets

EvFailed(s) ==
    /\ OnEvent("Network.loadingFailed", NoParams, s)
    /\ UNCHANGED targets

\* The user opens a tab; Target.targetCreated has no listener.
EvTargetCreated(t) ==
    /\ targets[t] = "unborn"
    /\ targets' = [targets EXCEPT ![t] = "alive"]
    /\ OnEvent("Target.targetCreated", TargetParams(t, Undef, Undef), NoSession)

(***************************************************************************)
(* How an async function of the agent moves: it transmits a command and    *)
(* suspends (Step), suspends on a promise that is not a command (Wait), or *)
(* ends (Return).  Each of them sets pc, op, ret, sent, calls, nextId and  *)
(* pending.  When an operation ends, pc is "done": the caller's            *)
(* continuation runs in the microtasks that follow the settling of the     *)
(* operation's promise, before the socket's next event is handled.  The    *)
(* caller then waits for something else (pc "idle") or calls again.        *)
(***************************************************************************)
MaxAgentId == 7

Call == calls[AgentCaller]

\* The caller is between two public operations and may start one.
AgentIdle == pc = "idle" /\ nextId <= MaxAgentId

\* The command awaited at label has been settled and the continuation runs.
Resumes(label) == pc = label /\ Settled(Call)

Step(label, o, method, params, sessionId) ==
    /\ pc' = label
    /\ op' = o
    /\ ret' = NoRet
    /\ Send(AgentCaller, method, params, sessionId)

Wait(label) ==
    /\ pc' = label
    /\ calls' = [calls EXCEPT ![AgentCaller] = IdleCall]
    /\ UNCHANGED <<op, ret, sent, nextId, pending>>

\* The operation ends; sent holds what it transmitted.
Return(o, outcome, err) ==
    /\ pc' = "done"
    /\ op' = NoOp
    /\ ret' = [op |-> o.name, outcome |-> outcome, err |-> err, ref |-> o.ref,
               tab |-> o.tab, wasCurrent |-> o.wasCurrent,
               hadRefs |-> refs # EmptyMap]
    /\ calls' = [calls EXCEPT ![AgentCaller] = IdleCall]
    /\ UNCHANGED <<sent, nextId, pending>>

\* A rejected await throws out of the operation.
Throw == Return(op, "error", Call.err)

\* The caller has seen the outcome and goes on.
Continue ==
    /\ pc = "done"
    /\ pc' = "idle"
    /\ ret' = NoRet
    /\ sent' = <<>>
    /\ UNCHANGED <<readyState, wsErrored, nextId, pending, listeners, calls>>
    /\ UNCHANGED <<tabs, currentTabId, currentSessionId, refs, op, targets,
                   snapValid, snapMap>>
    /\ UNCHANGED restVars

\* A page-changing command is being sent: the snapshot is out of date once it
\* is on the wire.
Outdated == IF readyState = "OPEN" THEN FALSE ELSE snapValid

sockVars == <<readyState, wsErrored>>
tabVars == <<tabs, currentTabId, currentSessionId>>

(***************************************************************************)
(* navigation.ts: navigate, reload, goBack, goForward; index.ts: the       *)
(* ChromeAgent methods that call them.                                     *)
(***************************************************************************)
NavigationFailed == "Navigation failed"

\* ChromeAgent.navigate(url) -> navigate(): await cdp.send("Page.enable")
Navigate(url) ==
    /\ AgentIdle
    /\ Step("nav_enable", [NoOp EXCEPT !.name = "navigate", !.url = url],
            "Page.enable", NoParams, currentSessionId)
    /\ UNCHANGED <<sockVars, listeners, tabVars, refs, targets, snapValid, snapMap>>
    /\ UNCHANGED restVars

\* navigate(): the load handler is registered, then Page.navigate is sent.
NavEnabled ==
    /\ Resumes("nav_enable")
    /\ IF Call.state = "rejected"
       THEN Throw /\ UNCHANGED <<listeners, snapValid>>
       ELSE /\ listeners' = On(listeners, "Page.loadEventFired", HLoad(nextId))
            /\ Step("nav_navigate", [op EXCEPT !.h = nextId], "Page.navigate",
                    [url |-> op.url], currentSessionId)
            /\ snapValid' = Outdated
    /\ UNCHANGED <<sockVars, tabVars, refs, targets, snapMap>>
    /\ UNCHANGED restVars

\* navigate() without its test of the response's errorText.
NavNavigatedNoErrorText ==
    /\ Resumes("nav_navigate")
    /\ IF Call.state = "rejected" THEN Throw ELSE Wait("nav_load")
    /\ UNCHANGED <<sockVars, listeners, tabVars, refs, targets, snapValid, snapMap>>
    /\ UNCHANGED restVars

\* navigate(): the Page.navigate response; then await loaded.
NavNavigated ==
    /\ Resumes("nav_navigate")
    /\ IF Call.state = "rejected" THEN Throw
       ELSE IF Field(Call.result, "errorText") \notin {Undef, ""}
       THEN Return(op, "error", NavigationFailed)
       ELSE Wait("nav_load")
    /\ UNCHANGED <<sockVars, listeners, tabVars, refs, targets, snapValid, snapMap>>
    /\ UNCHANGED restVars

\* navigate(): loaded has resolved; Page.bringToFront is sent.
NavLoaded ==
    /\ pc = "nav_load"
    /\ op.loaded
    /\ Step("nav_front", op, "Page.bringToFront", NoParams, currentSessionId)
    /\ UNCHANGED <<sockVars, listeners, tabVars, refs, targets, snapValid, snapMap>>
    /\ UNCHANGED restVars

\* navigate() returns; ChromeAgent.navigate clears the reference map.
NavFronted ==
    /\ Resumes("nav_front")
    /\ IF Call.state = "rejected"
       THEN Throw /\ UNCHANGED refs
       ELSE Return(op, "ok", "") /\ refs' = EmptyMap
    /\ UNCHANGED <<sockVars, listeners, tabVars, targets, snapValid, snapMap>>
    /\ UNCHANGED restVars

\* ChromeAgent.reload() -> reload(): await cdp.send("Page.enable")
Reload ==
    /\ AgentIdle
    /\ Step("rl_enable", [NoOp EXCEPT !.name = "reload"], "Page.enable",
            NoParams, currentSessionId)
    /\ UNCHANGED <<sockVars, listeners, tabVars, refs, targets, snapValid, snapMap>>
    /\ UNCHANGED restVars

\* reload(): the load handler is registered, then Page.reload is sent.
RlEnabled ==
    /\ Resumes("rl_enable")
    /\ IF Call.state = "rejected"
       THEN Throw /\ UNCHANGED <<listeners, snapValid>>
       ELSE /\ listeners' = On(listeners, "Page.loadEventFired", HLoad(nextId))
            /\ Step("rl_reload", [op EXCEPT !.h = nextId], "Page.reload",
                    NoParams, currentSessionId)
            /\ snapValid' = Outdated
    /\ UNCHANGED <<sockVars, tabVars, refs, targets, snapMap>>
    /\ UNCHANGED restVars

\* reload() without its await of loaded.
RlReloadedNoWait ==
    /\ Resumes("rl_reload")
    /\ IF Call.state = "rejected" THEN Throw ELSE Return(op, "ok", "")
    /\ UNCHANGED <<sockVars, listeners, tabVars, refs, targets, snapValid, snapMap>>
    /\ UNCHANGED restVars

\* reload(): the Page.reload response; then await loaded.
RlReloaded ==
    /\ Resumes("rl_reload")
    /\ IF Call.state = "rejected" THEN Throw ELSE Wait("rl_load")
    /\ UNCHANGED <<sockVars, listeners, tabVars, refs, targets, snapValid, snapMap>>
    /\ UNCHANGED restVars

\* ChromeAgent.reload without the clearing of the reference map.
RlLoadedKeepsRefs ==
    /\ pc = "rl_load"
    /\ op.loaded
    /\ Return(op, "ok", "")
    /\ UNCHANGED refs
    /\ UNCHANGED <<sockVars, listeners, tabVars, targets, snapValid, snapMap>>
    /\ UNCHANGED restVars

\* reload() returns; ChromeAgent.reload clears the reference map.
RlLoaded ==
    /\ pc = "rl_load"
    /\ op.loaded
    /\ Return(op, "ok", "")
    /\ refs' = EmptyMap
    /\ UNCHANGED <<sockVars, listeners, tabVars, targets, snapValid, snapMap>>
    /\ UNCHANGED restVars

\* history?.currentIndex ?? 0
CurrentIndex(result) ==
    IF ~Has(result, "currentIndex") THEN 0 ELSE result.currentIndex

\* history?.entries ?? []: the entries' ids
Entries(result) ==
    IF ~Has(result, "entries") THEN <<>> ELSE result.entries

\* ChromeAgent.back() / forward() -> goBack() / goForward():
\* await cdp.send("Page.getNavigationHistory")
History(name) ==
    /\ AgentIdle
    /\ name \in {"back", "forward"}
    /\ Step("hist_get", [NoOp EXCEPT !.name = name], "Page.getNavigationHistory",
            NoParams, currentSessionId)
    /\ UNCHANGED <<sockVars, listeners, tabVars, refs, targets, snapValid, snapMap>>
    /\ UNCHANGED restVars

\* goForward taking entries[idx] for entries[idx + 1].
NeighbourOffByOne(name, idx, entries) ==
    IF name = "back"
    THEN IF idx > 0 /\ idx <= Len(entries) THEN idx ELSE 0
    ELSE IF idx < Len(entries) - 1 /\ idx + 1 >= 1 THEN idx + 1 ELSE 0

\* The entry goBack / goForward navigates to: its index in entries (from 1),
\* or 0 when there is no such neighbour. entries[idx - 1] of the code is
\* entries[idx] here.
Neighbour(name, idx, entries) ==
    IF name = "back"
    THEN IF idx > 0 /\ idx <= Len(entries) THEN idx ELSE 0
    ELSE IF idx < Len(entries) - 1 /\ idx + 2 >= 1 THEN idx + 2 ELSE 0

\* goBack / goForward: the history has arrived.
HistGot ==
    /\ Resumes("hist_get")
    /\ IF Call.state = "rejected"
       THEN Throw /\ UNCHANGED <<refs, snapValid>>
       ELSE LET k == Neighbour(op.name, CurrentIndex(Call.result),
                               Entries(Call.result))
            IN  IF k # 0
                THEN /\ Step("hist_go", op, "Page.navigateToHistoryEntry",
                             [entryId |-> Entries(Call.result)[k]],
                             currentSessionId)
                     /\ snapValid' = Outdated
                     /\ UNCHANGED refs
                ELSE /\ Return(op, "ok", "")
                     /\ refs' = EmptyMap
                     /\ UNCHANGED snapValid
    /\ UNCHANGED <<sockVars, listeners, tabVars, targets, snapMap>>
    /\ UNCHANGED restVars

\* goBack / goForward return; ChromeAgent.back / forward clear the map.
HistGone ==
    /\ Resumes("hist_go")
    /\ IF Call.state = "rejected"
       THEN Throw /\ UNCHANGED refs
       ELSE Return(op, "ok", "") /\ refs' = EmptyMap
    /\ UNCHANGED <<sockVars, listeners, tabVars, targets, snapValid, snapMap>>
    /\ UNCHANGED restVars

(***************************************************************************)
(* navigation.ts: waitForNetworkIdle, with time in ticks.  A timer fires   *)
(* when its delay has elapsed: time does not advance past a due timer.     *)
(***************************************************************************)
MaxIdleMs == 2
MaxTimeoutMs == 4

\* ChromeAgent.waitForNetworkIdle(idleMs, timeoutMs) -> waitForNetworkIdle():
\* await cdp.send("Network.enable")
WaitForNetworkIdle(idleMs, timeoutMs) ==
    /\ AgentIdle
    /\ Step("idle_enable",
            [NoOp EXCEPT !.name = "waitForNetworkIdle", !.idleMs = idleMs,
                         !.timeoutMs = timeoutMs],
            "Network.enable", NoParams, currentSessionId)
    /\ UNCHANGED <<sockVars, listeners, tabVars, refs, targets, snapValid, snapMap>>
    /\ UNCHANGED restVars

\* The promise executor without its closing call of checkIdle().
IdleEnabledUnarmed ==
    /\ Resumes("idle_enable")
    /\ IF Call.state = "rejected"
       THEN Throw /\ UNCHANGED <<listeners, idleVars>>
       ELSE /\ Wait("idle_wait")
            /\ listeners' = On(On(On(listeners, "Network.requestWillBeSent", HRequest),
                                  "Network.loadingFinished", HFinish),
                               "Network.loadingFailed", HFinish)
            /\ inflight' = 0
            /\ timeout' = op.timeoutMs
            /\ timer' = NoTimer
            /\ resolved' = 0
            /\ sinceFinish' = NoTimer
            /\ sinceSetup' = 0
            /\ counted' = FALSE
    /\ UNCHANGED <<sockVars, tabVars, refs, targets, snapValid, snapMap, disc, fan, ax, dom>>

\* The promise executor: the timeout is armed, the three listeners are
\* registered, checkIdle() arms the idle timer.
IdleEnabled ==
    /\ Resumes("idle_enable")
    /\ IF Call.state = "rejected"
       THEN Throw /\ UNCHANGED <<listeners, idleVars>>
       ELSE /\ Wait("idle_wait")
            /\ listeners' = On(On(On(listeners, "Network.requestWillBeSent", HRequest),
                                  "Network.loadingFinished", HFinish),
                               "Network.loadingFailed", HFinish)
            /\ inflight' = 0
            /\ timeout' = op.timeoutMs
            /\ timer' = CheckIdle(0, op.idleMs)
            /\ resolved' = 0
            /\ sinceFinish' = NoTimer
            /\ sinceSetup' = 0
            /\ counted' = FALSE
    /\ UNCHANGED <<sockVars, tabVars, refs, targets, snapValid, snapMap, disc, fan, ax, dom>>

\* One tick passes while the wait is pending.
Tick ==
    /\ pc = "idle_wait"
    /\ resolved = 0
    /\ timer # 0
    /\ timeout # 0
    /\ sinceSetup <= MaxTimeoutMs
    /\ timer' = IF timer > 0 THEN timer - 1 ELSE timer
    /\ timeout' = IF timeout > 0 THEN timeout - 1 ELSE timeout
    /\ sinceFinish' = IF sinceFinish = NoTimer THEN NoTimer ELSE sinceFinish + 1
    /\ sinceSetup' = sinceSetup + 1
    /\ UNCHANGED <<inflight, resolved, counted, disc, fan, ax, dom>>
    /\ UNCHANGED cdpVars
    /\ UNCHANGED <<tabs, currentTabId, currentSessionId, refs, pc, op, ret,
                   targets, snapValid, snapMap>>

\* The callback of the idle timer: cleanup(); resolve()
IdleTimerFires ==
    /\ timer = 0
    /\ listeners' = Cleanup(listeners)
    /\ timer' = NoTimer
    /\ timeout' = NoTimer
    /\ resolved' = resolved + 1
    /\ UNCHANGED <<inflight, sinceFinish, sinceSetup, counted, disc, fan, ax, dom>>
    /\ UNCHANGED <<readyState, wsErrored, nextId, pending, sent, calls>>
    /\ UNCHANGED <<tabs, currentTabId, currentSessionId, refs, pc, op, ret,
                   targets, snapValid, snapMap>>

\* The callback of the overall timeout: cleanup(); resolve()
TimeoutFires ==
    /\ timeout = 0
    /\ listeners' = Cleanup(listeners)
    /\ timer' = NoTimer
    /\ timeout' = NoTimer
    /\ resolved' = resolved + 1
    /\ UNCHANGED <<inflight, sinceFinish, sinceSetup, counted, disc, fan, ax, dom>>
    /\ UNCHANGED <<readyState, wsErrored, nextId, pending, sent, calls>>
    /\ UNCHANGED <<tabs, currentTabId, currentSessionId, refs, pc, op, ret,
                   targets, snapValid, snapMap>>

\* The wait's promise has resolved: waitForNetworkIdle returns, and nothing
\* refers to its closures any more.
IdleReturned ==
    /\ pc = "idle_wait"
    /\ resolved > 0
    /\ Return(op, "ok", "")
    /\ inflight' = 0
    /\ timer' = NoTimer
    /\ timeout' = NoTimer
    /\ resolved' = 0
    /\ sinceFinish' = NoTimer
    /\ sinceSetup' = NoTimer
    /\ counted' = FALSE
    /\ UNCHANGED <<sockVars, listeners, tabVars, refs, targets, snapValid, snapMap,
                   disc, fan, ax, dom>>

(***************************************************************************)
(* index.ts: ChromeAgent.snapshot -> accessibility.ts: snapshot            *)
(***************************************************************************)
Snapshot ==
    /\ AgentIdle
    /\ Step("snap_enable", [NoOp EXCEPT !.name = "snapshot"],
            "Accessibility.enable", NoParams, currentSessionId)
    /\ UNCHANGED <<sockVars, listeners, tabVars, refs, targets, snapValid, snapMap>>
    /\ UNCHANGED restVars

SnapEnabled ==
    /\ Resumes("snap_enable")
    /\ IF Call.state = "rejected" THEN Throw
       ELSE Step("snap_tree", op, "Accessibility.getFullAXTree", NoParams,
                 currentSessionId)
    /\ UNCHANGED <<sockVars, listeners, tabVars, refs, targets, snapValid, snapMap>>
    /\ UNCHANGED restVars

\* Array.isArray(res?.nodes) ? res.nodes : []
RawNodes(result) ==
    IF ~Has(result, "nodes") THEN <<>> ELSE result.nodes

\* snapshot() returns {text, refs}; ChromeAgent.snapshot replaces this.refs.
SnapTree ==
    /\ Resumes("snap_tree")
    /\ IF Call.state = "rejected"
       THEN Throw /\ UNCHANGED <<refs, snapValid, snapMap>>
       ELSE LET result == SnapshotOf(RawNodes(Call.result), DefaultLimit)
            IN  /\ Return(op, "ok", "")
                /\ refs' = result.refs
                /\ snapMap' = result.refs
                /\ snapValid' = TRUE
    /\ UNCHANGED <<sockVars, listeners, tabVars, targets>>
    /\ UNCHANGED restVars

(***************************************************************************)
(* actions.ts: resolveRef, getClickPoint, clickRef, typeIntoRef,           *)
(* selectOption, checkRef; index.ts: click, type, select, check            *)
(***************************************************************************)
InvalidRef == "Invalid ref"
RefNotFound == "Ref not found - run snapshot() first"
NoQuads == "Could not get element position (no quads returned)"
NoObject == "Could not resolve node to JS object"

\* resolveRef with the lookup failure reported as an invalid reference.
ResolveRefOneError(raw, map) ==
    LET parsed == ParseRef(raw)
    IN  IF parsed = NoRef \/ parsed \notin DOMAIN map
        THEN [ok |-> FALSE, err |-> InvalidRef, node |-> 0]
        ELSE [ok |-> TRUE, err |-> "", node |-> map[parsed]]

\* resolveRef without the test of the lookup's result.
ResolveRefUnchecked(raw, map) ==
    LET parsed == ParseRef(raw)
    IN  IF parsed = NoRef
        THEN [ok |-> FALSE, err |-> InvalidRef, node |-> 0]
        ELSE [ok |-> TRUE, err |-> "",
              node |-> IF parsed \in DOMAIN map THEN map[parsed] ELSE 0]

\* resolveRef(ref, refs): the node id, or the error thrown.
ResolveRef(raw, map) ==
    LET parsed == ParseRef(raw)
    IN  IF parsed = NoRef
        THEN [ok |-> FALSE, err |-> InvalidRef, node |-> 0]
        ELSE IF parsed \notin DOMAIN map
        THEN [ok |-> FALSE, err |-> RefNotFound, node |-> 0]
        ELSE [ok |-> TRUE, err |-> "", node |-> map[parsed]]

ActionNames == {"click", "type", "select", "check"}

\* The first command of each action, sent once the token has resolved.
FirstLabel(name) == IF name = "click" THEN "click_scroll" ELSE "obj_resolve"

FirstMethod(name) ==
    IF name = "click" THEN "DOM.scrollIntoViewIfNeeded" ELSE "DOM.resolveNode"

\* click(ref), type(ref, text), select(ref, values), check(ref, checked):
\* resolveRef runs before anything is sent.
Action(name, raw, checked) ==
    /\ AgentIdle
    /\ name \in ActionNames
    /\ name # "check" => checked = FALSE
    /\ LET r == ResolveRef(raw, refs)
           o == [NoOp EXCEPT !.name = name, !.ref = raw, !.node = r.node,
                             !.checked = checked]
       IN  IF r.ok
           THEN Step(FirstLabel(name), o, FirstMethod(name),
                     [backendNodeId |-> r.node], currentSessionId)
           ELSE Return(o, "error", r.err)
    /\ UNCHANGED <<sockVars, listeners, tabVars, refs, targets, snapValid, snapMap>>
    /\ UNCHANGED restVars

\* getClickPoint: after DOM.scrollIntoViewIfNeeded, DOM.getContentQuads.
ClickScrolled ==
    /\ Resumes("click_scroll")
    /\ IF Call.state = "rejected" THEN Throw
       ELSE Step("click_quads", op, "DOM.getContentQuads",
                 [backendNodeId |-> op.node], currentSessionId)
    /\ UNCHANGED <<sockVars, listeners, tabVars, refs, targets, snapValid, snapMap>>
    /\ UNCHANGED restVars

\* result?.quads
Quads(result) == IF ~Has(result, "quads") THEN <<>> ELSE result.quads

\* The middle of the first and third corners instead of the centre of the four.
CentreOfDiagonal(q) ==
    [x |-> (q[1] + q[5]) \div 2,
     y |-> (q[2] + q[6]) \div 2]

\* The centre of the first quad [x1,y1, x2,y2, x3,y3, x4,y4]. The quads of the
\* model have corner sums divisible by 4, so the division is exact.
Centre(q) ==
    [x |-> (q[1] + q[3] + q[5] + q[7]) \div 4,
     y |-> (q[2] + q[4] + q[6] + q[8]) \div 4]

MouseEvent(type, x, y) ==
    [type |-> type, x |-> x, y |-> y, button |-> "left", clickCount |-> 1]

\* getClickPoint returns the point; clickRef sends mousePressed.
ClickQuads ==
    /\ Resumes("click_quads")
    /\ IF Call.state = "rejected" THEN Throw
       ELSE LET quads == Quads(Call.result)
            IN  IF Len(quads) = 0 \/ Len(quads[1]) = 0
                THEN Return(op, "error", NoQuads)
                ELSE LET pt == Centre(quads[1])
                     IN  Step("click_press", [op EXCEPT !.x = pt.x, !.y = pt.y],
                              "Input.dispatchMouseEvent",
                              MouseEvent("mousePressed", pt.x, pt.y),
                              currentSessionId)
    /\ UNCHANGED <<sockVars, listeners, tabVars, refs, targets, snapValid, snapMap>>
    /\ UNCHANGED restVars

ClickPressed ==
    /\ Resumes("click_press")
    /\ IF Call.state = "rejected" THEN Throw
       ELSE Step("click_release", op, "Input.dispatchMouseEvent",
                 MouseEvent("mouseReleased", op.x, op.y), currentSessionId)
    /\ UNCHANGED <<sockVars, listeners, tabVars, refs, targets, snapValid, snapMap>>
    /\ UNCHANGED restVars

ClickReleased ==
    /\ Resumes("click_release")
    /\ IF Call.state = "rejected" THEN Throw ELSE Return(op, "ok", "")
    /\ UNCHANGED <<sockVars, listeners, tabVars, refs, targets, snapValid, snapMap>>
    /\ UNCHANGED restVars

\* typeIntoRef / selectOption / checkRef: the DOM.resolveNode response.
ObjResolved ==
    /\ Resumes("obj_resolve")
    /\ IF Call.state = "rejected" THEN Throw
       ELSE LET objectId == Field(Call.result, "objectId")
                o == [op EXCEPT !.objectId = objectId]
            IN  IF objectId \in {Undef, ""}
                THEN Return(op, "error", NoObject)
                ELSE CASE op.name = "type" ->
                            Step("type_focus", o, "DOM.focus",
                                 [backendNodeId |-> op.node], currentSessionId)
                       [] op.name = "select" ->
                            Step("sel_call", o, "Runtime.callFunctionOn",
                                 [objectId |-> objectId, fn |-> "select"],
                                 currentSessionId)
                       [] OTHER ->
                            Step("chk_read", o, "Runtime.callFunctionOn",
                                 [objectId |-> objectId, fn |-> "checked"],
                                 currentSessionId)
    /\ UNCHANGED <<sockVars, listeners, tabVars, refs, targets, snapValid, snapMap>>
    /\ UNCHANGED restVars

TypeFocused ==
    /\ Resumes("type_focus")
    /\ IF Call.state = "rejected" THEN Throw
       ELSE Step("type_clear", op, "Runtime.callFunctionOn",
                 [objectId |-> op.objectId, fn |-> "clear"], currentSessionId)
    /\ UNCHANGED <<sockVars, listeners, tabVars, refs, targets, snapValid, snapMap>>
    /\ UNCHANGED restVars

TypeCleared ==
    /\ Resumes("type_clear")
    /\ IF Call.state = "rejected" THEN Throw
       ELSE Step("type_insert", op, "Input.insertText", [text |-> "text"],
                 currentSessionId)
    /\ UNCHANGED <<sockVars, listeners, tabVars, refs, targets, snapValid, snapMap>>
    /\ UNCHANGED restVars

TypeInserted ==
    /\ Resumes("type_insert")
    /\ IF Call.state = "rejected" THEN Throw ELSE Return(op, "ok", "")
    /\ UNCHANGED <<sockVars, listeners, tabVars, refs, targets, snapValid, snapMap>>
    /\ UNCHANGED restVars

SelCalled ==
    /\ Resumes("sel_call")
    /\ IF Call.state = "rejected" THEN Throw ELSE Return(op, "ok", "")
    /\ UNCHANGED <<sockVars, listeners, tabVars, refs, targets, snapValid, snapMap>>
    /\ UNCHANGED restVars

\* The checked state taken as false whatever was read.
CurrentCheckedNeverSet(result) == FALSE

\* evalResult?.result?.value ?? false
CurrentChecked(result) == Field(result, "value") = "true"

\* checkRef: the checked state has been read; clickRef runs (resolving the
\* token again) only when it differs from the requested one.
ChkRead ==
    /\ Resumes("chk_read")
    /\ IF Call.state = "rejected" THEN Throw
       ELSE IF CurrentChecked(Call.result) # op.checked
       THEN LET r == ResolveRef(op.ref, refs)
            IN  IF r.ok
                THEN Step("click_scroll", [op EXCEPT !.node = r.node],
                          "DOM.scrollIntoViewIfNeeded",
                          [backendNodeId |-> r.node], currentSessionId)
                ELSE Return(op, "error", r.err)
       ELSE Return(op, "ok", "")
    /\ UNCHANGED <<sockVars, listeners, tabVars, refs, targets, snapValid, snapMap>>
    /\ UNCHANGED restVars

(***************************************************************************)
(* index.ts: newTab, switchTab, closeTab, close; tab-manager.ts:           *)
(* createTab, attach, closeTab, dispose                                    *)
(***************************************************************************)
NoTargetId == "Target.createTarget returned no targetId"
NoSessionId == "Target.attachToTarget returned no sessionId"
TabNotFound == "Tab not found"
NoTabToClose == "No tab to close"

\* url ?? "about:blank"
UrlOrBlank(url) == IF url = Undef THEN "about:blank" ELSE url

\* ChromeAgent.newTab(url) -> createTab(url): Target.createTarget
NewTab(url) ==
    /\ AgentIdle
    /\ Step("new_create", [NoOp EXCEPT !.name = "newTab", !.url = url],
            "Target.createTarget", [url |-> UrlOrBlank(url)], NoSession)
    /\ UNCHANGED <<sockVars, listeners, tabVars, refs, targets, snapValid, snapMap>>
    /\ UNCHANGED restVars

\* createTab: the target id has arrived; attach(targetId) is called.
NewCreated ==
    /\ Resumes("new_create")
    /\ IF Call.state = "rejected" THEN Throw
       ELSE LET targetId == Field(Call.result, "targetId")
            IN  IF targetId \in {Undef, ""}
                THEN Return(op, "error", NoTargetId)
                ELSE Step("new_attach", [op EXCEPT !.tab = targetId],
                          "Target.attachToTarget",
                          [targetId |-> targetId, flatten |-> TRUE], NoSession)
    /\ UNCHANGED <<sockVars, listeners, tabVars, refs, targets, snapValid, snapMap>>
    /\ UNCHANGED restVars

\* attach inserts the record and returns; createTab sets the record's url and
\* returns; newTab makes the tab current and clears the reference map. No
\* inbound message is handled between these continuations.
NewAttached ==
    /\ Resumes("new_attach")
    /\ IF Call.state = "rejected"
       THEN Throw /\ UNCHANGED <<tabVars, refs, snapValid>>
       ELSE LET sessionId == Field(Call.result, "sessionId")
                attached == AttachRecord(tabs, op.tab, sessionId)
                created == [attached EXCEPT ![op.tab].url = UrlOrBlank(op.url)]
            IN  IF sessionId \in {Undef, ""}
                THEN /\ Return(op, "error", NoSessionId)
                     /\ UNCHANGED <<tabVars, refs, snapValid>>
                ELSE /\ Return(op, "ok", "")
                     /\ tabs' = created
                     /\ currentTabId' = op.tab
                     /\ currentSessionId' = created[op.tab].sessionId
                     /\ refs' = EmptyMap
                     /\ snapValid' = FALSE
    /\ UNCHANGED <<sockVars, listeners, targets, snapMap>>
    /\ UNCHANGED restVars

\* ChromeAgent.switchTab(tabId)
SwitchTab(tabId) ==
    /\ pc = "idle"
    /\ LET o == [NoOp EXCEPT !.name = "switchTab", !.tab = tabId]
       IN  IF tabId \notin DOMAIN tabs
           THEN /\ Return(o, "error", TabNotFound)
                /\ UNCHANGED <<currentTabId, currentSessionId, refs, snapValid>>
           ELSE /\ Return(o, "ok", "")
                /\ currentTabId' = tabId
                /\ currentSessionId' = tabs[tabId].sessionId
                /\ refs' = EmptyMap
                /\ snapValid' = FALSE
    /\ UNCHANGED <<sockVars, listeners, tabs, targets, snapMap>>
    /\ UNCHANGED restVars

\* ChromeAgent.closeTab(tabId?) -> TabManager.closeTab: Target.closeTarget
CloseTab(tabId) ==
    /\ AgentIdle
    /\ LET target == IF tabId = Undef THEN currentTabId ELSE tabId
           o == [NoOp EXCEPT !.name = "closeTab", !.tab = target,
                             !.wasCurrent = (target = currentTabId)]
       IN  IF target = NoTab
           THEN Return(o, "error", NoTabToClose)
           ELSE Step("close_target", o, "Target.closeTarget",
                     [targetId |-> target], NoSession)
    /\ UNCHANGED <<sockVars, listeners, tabVars, refs, targets, snapValid, snapMap>>
    /\ UNCHANGED restVars

\* TabManager.closeTab deletes the record once the command has succeeded;
\* ChromeAgent.closeTab then drops the selection if it was the current tab.
CloseTargetDone ==
    /\ Resumes("close_target")
    /\ IF Call.state = "rejected"
       THEN Throw /\ UNCHANGED <<tabVars, refs, snapValid>>
       ELSE /\ Return(op, "ok", "")
            /\ tabs' = MapRemove(tabs, op.tab)
            /\ IF op.tab = currentTabId
               THEN /\ currentTabId' = NoTab
                    /\ currentSessionId' = NoSession
                    /\ refs' = EmptyMap
                    /\ snapValid' = FALSE
               ELSE UNCHANGED <<currentTabId, currentSessionId, refs, snapValid>>
    /\ UNCHANGED <<sockVars, listeners, targets, snapMap>>
    /\ UNCHANGED restVars

\* dispose() that unregisters one of the two handlers only.
DisposeDestroyedOnly(ls) == Off(ls, "Target.targetDestroyed", HDestroyed)

\* dispose()
Dispose(ls) ==
    Off(Off(ls, "Target.targetDestroyed", HDestroyed),
        "Target.targetInfoChanged", HInfoChanged)

\* ChromeAgent.close(): tabs.dispose(), then cdp.close(). The caller is idle,
\* so none of its commands is pending and pending.clear() removes nothing.
AgentClose ==
    /\ pc = "idle"
    /\ Return([NoOp EXCEPT !.name = "close"], "ok", "")
    /\ listeners' = Dispose(listeners)
    /\ readyState' = WsClose(readyState)
    /\ UNCHANGED <<wsErrored, tabVars, refs, targets, snapValid, snapMap>>
    /\ UNCHANGED restVars

(***************************************************************************)
(* The browser's answers to the agent's commands.                          *)
(***************************************************************************)
\* A page as Accessibility.getFullAXTree reports it.
PageA ==
    << RawNode("1", "RootWebArea", "Home", <<"2", "3">>, 10),
       RawNode("2", "button", "Submit", <<>>, 11),
       RawNode("3", "link", "More", <<>>, 12) >>

\* The results a browser may return for a command (a result may lack the
\* field the caller reads).
ResultsFor(method) ==
    CASE method = "Accessibility.getFullAXTree" ->
            {[nodes |-> PageA], OkResult}
      [] method = "DOM.getContentQuads" ->
            {[quads |-> << <<0, 0, 4, 0, 4, 4, 0, 4>> >>], [quads |-> <<>>],
             [quads |-> << <<0, 0, 8, 0, 4, 4, 0, 4>>,
                           <<8, 8, 12, 8, 12, 12, 8, 12>> >>],
             [quads |-> << <<>> >>], OkResult}
      [] method = "DOM.resolveNode" -> {[objectId |-> "obj"], OkResult}
      [] method = "Runtime.callFunctionOn" ->
            {[value |-> "true"], [value |-> "false"], OkResult}
      [] method = "Target.createTarget" ->
            {[targetId |-> t] : t \in {u \in TargetIds : targets[u] = "unborn"}}
            \cup {OkResult}
      [] method = "Target.attachToTarget" ->
            {[sessionId |-> SessionOf(t)] :
                t \in {u \in TargetIds : u = op.tab /\ targets[u] = "alive"}}
            \cup {OkResult}
      [] method = "Page.navigate" ->
          {OkResult, [errorText |-> ""], [errorText |-> "net::ERR"]}
      [] method = "Page.getNavigationHistory" ->
            {[currentIndex |-> i, entries |-> <<7, 8>>] : i \in {0, 1}}
            \cup {OkResult}
      [] method = "Network.setCookie" ->
            {[success |-> TRUE], [success |-> FALSE], OkResult}
      [] OTHER -> {OkResult}

\* Target.createTarget makes the target it returns.
Created(method, err, result) ==
    IF method = "Target.createTarget" /\ ~err.present
          /\ Field(result, "targetId") # Undef
    THEN [targets EXCEPT ![result.targetId] = "alive"]
    ELSE targets

\* ws.on("message") for the response to the command the agent awaits; an error
\* response carries no result.
\* The browser's answers about the node agree with what the node is.
HasObject(result) == Has(result, "objectId") /\ result.objectId \notin {Undef, ""}
HasQuad(result) ==
    /\ Has(result, "quads")
    /\ result.quads # <<>>
    /\ result.quads[1] # <<>>

Answerable(method, result) ==
    /\ (method = "DOM.resolveNode" /\ dom.handle = "yes") => HasObject(result)
    /\ (method = "DOM.resolveNode" /\ dom.handle = "no") => ~HasObject(result)
    /\ (method = "DOM.getContentQuads" /\ dom.geometry = "yes") => HasQuad(result)
    /\ (method = "DOM.getContentQuads" /\ dom.geometry = "no") => ~HasQuad(result)

AgentResponse(err, result) ==
    /\ readyState \in {"OPEN", "CLOSING"}
    /\ Call.state = "suspended"
    /\ Call.id \in DOMAIN pending
    /\ result \in IF err.present THEN {NoResult} ELSE ResultsFor(Call.method)
    /\ ~err.present => Answerable(Call.method, result)
    /\ HandleResponse(Call.id, err, result)
    /\ targets' = Created(Call.method, err, result)
    /\ UNCHANGED <<readyState, wsErrored, nextId, listeners, sent>>
    /\ UNCHANGED <<tabs, currentTabId, currentSessionId, refs, pc, op, ret,
                   snapValid, snapMap>>
    /\ UNCHANGED restVars

AnyResult ==
    UNION {ResultsFor(m) : m \in
        {"Accessibility.getFullAXTree", "DOM.getContentQuads", "DOM.resolveNode",
         "Runtime.callFunctionOn", "Target.createTarget", "Target.attachToTarget",
         "Page.navigate", "Page.getNavigationHistory", "Page.enable"}}
    \cup {NoResult}

(***************************************************************************)
(* SpecAgent: one sequential caller of a connected ChromeAgent.            *)
(***************************************************************************)
\* Strings a caller passes as a reference.
RefInputs == { <<"@", "e", "1">>, <<"e", "2">>, <<"e", "3">>, <<"x", "1">> }

Urls == {"http://a"}

\* ChromeAgent.connect has returned: target discovery is on, the tab manager
\* has registered its handlers, and the agent is attached to the first page
\* target if there was one.
InitAgentOn(d) ==
    /\ readyState = "OPEN"
    /\ wsErrored = FALSE
    /\ pending = EmptyMap
    /\ listeners = On(On(EmptyMap, "Target.targetDestroyed", HDestroyed),
                      "Target.targetInfoChanged", HInfoChanged)
    /\ sent = <<>>
    /\ calls = [c \in Callers |-> IdleCall]
    /\ refs = EmptyMap
    /\ pc = "idle"
    /\ op = NoOp
    /\ ret = NoRet
    /\ snapValid = FALSE
    /\ snapMap = EmptyMap
    /\ NoWait
    /\ disc = NoDisc
    /\ fan = NoFan
    /\ ax = NoAx
    /\ dom = d
    /\ \/ /\ nextId = 4
          /\ tabs = AttachRecord(EmptyMap, "T1", SessionOf("T1"))
          /\ currentTabId = "T1"
          /\ currentSessionId = SessionOf("T1")
          /\ targets = [t \in TargetIds |-> IF t = "T1" THEN "alive" ELSE "unborn"]
       \/ /\ nextId = 3
          /\ tabs = EmptyMap
          /\ currentTabId = NoTab
          /\ currentSessionId = NoSession
          /\ targets = [t \in TargetIds |-> "unborn"]

InitAgent == InitAgentOn(DomAny)

\* The socket's events while the agent runs.
AgentSocket ==
    /\ pc # "done"
    /\ \/ SocketError
       \/ SocketClose

\* Events the browser sends.
AgentEvent ==
    /\ pc # "done"
    /\ \/ \E t \in TargetIds : EvTargetDestroyed(t)
       \/ \E s \in Sessions : EvLoad(s)

\* The caller starts a public operation.
AgentCall ==
    \/ \E url \in Urls : Navigate(url)
    \/ Reload
    \/ \E name \in {"back", "forward"} : History(name)
    \/ Snapshot
    \/ \E name \in ActionNames, raw \in RefInputs, checked \in BOOLEAN :
          Action(name, raw, checked)
    \/ \E url \in Urls \cup {Undef} : NewTab(url)
    \/ \E t \in TargetIds : SwitchTab(t)
    \/ \E t \in TargetIds \cup {Undef} : CloseTab(t)
    \/ AgentClose

\* A suspended operation continues.
AgentResume ==
    \/ NavEnabled \/ NavNavigated \/ NavLoaded \/ NavFronted
    \/ RlEnabled \/ RlReloaded \/ RlLoaded
    \/ HistGot \/ HistGone
    \/ SnapEnabled \/ SnapTree
    \/ ClickScrolled \/ ClickQuads \/ ClickPressed \/ ClickReleased
    \/ ObjResolved \/ TypeFocused \/ TypeCleared \/ TypeInserted
    \/ SelCalled \/ ChkRead
    \/ NewCreated \/ NewAttached
    \/ CloseTargetDone

NextAgent ==
    \/ AgentCall
    \/ AgentResume
    \/ Continue
    \/ \E err \in {NoErr, ProtoErr}, result \in AnyResult :
          AgentResponse(err, result)
    \/ AgentEvent
    \/ AgentSocket

SpecAgent == InitAgent /\ [][NextAgent]_vars

(***************************************************************************)
(* cdp-client.ts: discoverWsUrl.  Its timer is armed for 5 s; how long the *)
(* endpoint takes is not modelled, so the armed timer may fire at any step.*)
(***************************************************************************)
DiscoveryTimeout == "timeout"
HttpError == "HTTP status"
RequestError == "request error"
MissingWsUrl == "CDP /json/version missing webSocketDebuggerUrl"

\* The fields of ChromeAgent and of the wait, which discovery does not touch.
chromeVars == <<tabs, currentTabId, currentSessionId, refs, pc, op, ret,
                targets, snapValid, snapMap>>

\* The timer callback of discoverWsUrl with the rejection left out.
DiscTimedOutSoft(d) == [d EXCEPT !.state = "returned", !.timer = "fired"]

\* The timer callback: req.destroy(); reject(new Error("timeout"))
DiscTimedOut(d) ==
    [d EXCEPT !.state = "failed", !.timer = "fired", !.err = DiscoveryTimeout]

\* discoverWsUrl(cdpHttpUrl): the timer is armed and the request sent.
Discover ==
    /\ disc.state = "off"
    /\ disc' = [state |-> "waiting", timer |-> "armed", err |-> ""]
    /\ UNCHANGED <<cdpVars, chromeVars, idleVars, fan, ax, dom>>

\* The response callback: a status other than 200 clears the timer and
\* rejects; with 200 the body is collected.
DiscHeaders(status) ==
    /\ disc.state = "waiting"
    /\ disc' = IF status # 200
               THEN [disc EXCEPT !.state = "failed", !.timer = "cleared",
                                 !.err = HttpError]
               ELSE [disc EXCEPT !.state = "receiving"]
    /\ UNCHANGED <<cdpVars, chromeVars, idleVars, fan, ax, dom>>

\* res.on("end"): the timer is cleared and the body resolves the promise;
\* discoverWsUrl returns the url in it, or throws when there is none.
DiscEnd(hasUrl) ==
    /\ disc.state = "receiving"
    /\ disc' = IF hasUrl
               THEN [disc EXCEPT !.state = "returned", !.timer = "cleared"]
               ELSE [disc EXCEPT !.state = "failed", !.timer = "cleared",
                                 !.err = MissingWsUrl]
    /\ UNCHANGED <<cdpVars, chromeVars, idleVars, fan, ax, dom>>

\* req.on("error")
DiscRequestError ==
    /\ disc.state = "waiting"
    /\ disc' = [disc EXCEPT !.state = "failed", !.timer = "cleared",
                            !.err = RequestError]
    /\ UNCHANGED <<cdpVars, chromeVars, idleVars, fan, ax, dom>>

\* The 5 s timer fires before the body has ended.
DiscTimeout ==
    /\ disc.timer = "armed"
    /\ disc' = DiscTimedOut(disc)
    /\ UNCHANGED <<cdpVars, chromeVars, idleVars, fan, ax, dom>>

\* The caller of discoverWsUrl has seen its outcome.
DiscDone ==
    /\ disc.state \in {"returned", "failed"}
    /\ disc' = NoDisc
    /\ UNCHANGED <<cdpVars, chromeVars, idleVars, fan, ax, dom>>

(***************************************************************************)
(* SpecIdle: a caller of waitForNetworkIdle, the network's events, time.   *)
(***************************************************************************)
NetworkEvent ==
    /\ pc # "done"
    /\ \/ \E s \in Sessions : EvRequest(s)
       \/ \E s \in Sessions : EvFinished(s)
       \/ \E s \in Sessions : EvFailed(s)

NextIdle ==
    \/ \E idleMs \in 1..MaxIdleMs, timeoutMs \in 1..MaxTimeoutMs :
          WaitForNetworkIdle(idleMs, timeoutMs)
    \/ IdleEnabled
    \/ IdleReturned
    \/ Continue
    \/ \E err \in {NoErr, ProtoErr}, result \in AnyResult :
          AgentResponse(err, result)
    \/ NetworkEvent
    \/ Tick
    \/ IdleTimerFires
    \/ TimeoutFires
    \/ AgentSocket
    \/ Discover
    \/ \E status \in {200, 500} : DiscHeaders(status)
    \/ \E hasUrl \in BOOLEAN : DiscEnd(hasUrl)
    \/ DiscRequestError
    \/ DiscTimeout
    \/ DiscDone

SpecIdle == InitAgent /\ [][NextIdle]_vars

(***************************************************************************)
(* cdp-client.ts: on, off and dispatchEvent with a caller's handlers.      *)
(* listeners.get(method) is a Set, iterated in insertion order: n is the   *)
(* handler's place in that order, counted from 1 without gaps between two  *)
(* steps.  The caller has three handlers, named                            *)
(* by what they do when called: one returns, one throws, one unregisters   *)
(* the other handlers of the event (as a cleanup() does) and returns.      *)
(***************************************************************************)
UserHandlers == {"returns", "throws", "drops"}
UserEvents == {"Page.loadEventFired", "Network.loadingFinished"}

\* The handlers registered for the event in the registry ls.
HandlersIn(ls, event) == IF event \in DOMAIN ls THEN ls[event] ELSE {}

\* The place the next handler added to the set gets.
NextStamp(hs) == Cardinality(hs) + 1

\* The same handlers in the same order, their places counted without gaps.
Compact(hs) ==
    {[h |-> x.h, n |-> Cardinality({g \in hs : g.n <= x.n})] : x \in hs}

\* The handler is in the set.
Registered(hs, kind) == \E h \in hs : h.h = kind

\* The first handler of the set after place last, in insertion order.
NextHandler(hs, last) ==
    CHOOSE h \in hs : h.n > last /\ \A g \in hs : g.n > last => h.n <= g.n

\* for (const h of handlers) without the try / catch around the call: the
\* first exception ends the loop.
RECURSIVE ForEachNoCatch(_, _, _)
ForEachNoCatch(live, last, invoked) ==
    IF \A h \in live : h.n <= last
    THEN [live |-> live, invoked |-> invoked]
    ELSE LET h == NextHandler(live, last)
         IN  IF h.h = "throws"
             THEN [live |-> live, invoked |-> Append(invoked, h)]
             ELSE ForEachNoCatch(IF h.h = "drops" THEN {h} ELSE live, h.n,
                                 Append(invoked, h))

\* for (const h of handlers) { try { h(params, sessionId) } catch {} }: the
\* iteration of the live Set goes on to the next handler still in it. The
\* result is the set after the loop and the handlers called, in order.
RECURSIVE ForEach(_, _, _)
ForEach(live, last, invoked) ==
    IF \A h \in live : h.n <= last
    THEN [live |-> live, invoked |-> invoked]
    ELSE LET h == NextHandler(live, last)
         IN  ForEach(IF h.h = "drops" THEN {h} ELSE live, h.n,
                     Append(invoked, h))

\* cdp.on(event, handler) by the caller; adding a handler already in the
\* Set changes nothing.
UserOn(event, kind) ==
    /\ ~Registered(HandlersIn(listeners, event), kind)
    /\ listeners' = On(listeners, event,
                       [h |-> kind, n |-> NextStamp(HandlersIn(listeners, event))])
    /\ UNCHANGED <<readyState, wsErrored, nextId, pending, sent, calls>>
    /\ UNCHANGED agentVars

\* cdp.off(event, handler) by the caller.
UserOff(event, kind) ==
    /\ Registered(HandlersIn(listeners, event), kind)
    /\ \E h \in HandlersIn(listeners, event) :
          /\ h.h = kind
          /\ listeners' = [Off(listeners, event, h) EXCEPT ![event] = Compact(@)]
    /\ UNCHANGED <<readyState, wsErrored, nextId, pending, sent, calls>>
    /\ UNCHANGED agentVars

\* ws.on("message") for an event {method}: dispatchEvent(method, ...).
OnUserEvent(method) ==
    /\ readyState \in {"OPEN", "CLOSING"}
    /\ IF method \notin DOMAIN listeners
       THEN /\ UNCHANGED listeners
            /\ fan' = [method |-> method, before |-> {}, invoked |-> <<>>,
                       threw |-> FALSE, earlier |-> fan.threw]
       ELSE LET r == ForEach(listeners[method], 0, <<>>)
            IN  /\ listeners' = [listeners EXCEPT ![method] = Compact(r.live)]
                /\ fan' = [method |-> method, before |-> listeners[method],
                           invoked |-> r.invoked,
                           threw |-> \E i \in 1..Len(r.invoked) :
                                        r.invoked[i].h = "throws",
                           earlier |-> fan.threw]
    /\ UNCHANGED <<readyState, wsErrored, nextId, pending, sent, calls>>
    /\ UNCHANGED <<tabs, currentTabId, currentSessionId, refs, pc, op, ret,
                   targets, snapValid, snapMap, idleVars, disc, ax, dom>>

(***************************************************************************)
(* SpecFan: a caller that registers and unregisters handlers while the     *)
(* socket delivers events.                                                 *)
(***************************************************************************)
NextFan ==
    \/ SocketOpen
    \/ SocketClose
    \/ \E event \in UserEvents, kind \in UserHandlers : UserOn(event, kind)
    \/ \E event \in UserEvents, kind \in UserHandlers : UserOff(event, kind)
    \/ \E method \in UserEvents : OnUserEvent(method)

SpecFan == InitCdp /\ [][NextFan]_vars

(***************************************************************************)
(* SpecAx: the functions of accessibility.ts applied to inputs: parseRef   *)
(* to every string of up to MaxRefLen characters of RefChars, and          *)
(* formatAriaSnapshot and buildSnapshot to raw node lists.                 *)
(* The lists are: every list of three nodes with ids 1, 2, 3 in any order, *)
(* each node listing up to two distinct children among 1, 2, 3 and the     *)
(* unknown id 9 (trees, shared children and cycles alike); and the pages   *)
(* of one root with one child of any role, named or not, with or without   *)
(* a backend node id.                                                      *)
(***************************************************************************)
MaxAxLimit == 4
MaxRefLen == 4

RefChars == {"@", "e", "E", "x", "1", "2", " "}

RefStrings == UNION {[1..n -> RefChars] : n \in 0..MaxRefLen}

AxIds == {"1", "2", "3"}
UnknownId == "9"

\* The backend node id of the raw node with the given id.
BackendOf(id) == CASE id = "1" -> 11 [] id = "2" -> 12 [] OTHER -> 13

ChildLists ==
    {<<>>}
        \cup {<<a>> : a \in AxIds \cup {UnknownId}}
        \cup {p \in (AxIds \cup {UnknownId}) \X (AxIds \cup {UnknownId}) :
                 p[1] # p[2]}

Orders == {o \in [1..3 -> AxIds] : \A i, j \in 1..3 : o[i] = o[j] => i = j}

GraphInputs ==
    {[i \in 1..3 |-> RawNode(o[i], "generic", o[i], kids[o[i]], BackendOf(o[i]))] :
        o \in Orders, kids \in [AxIds -> ChildLists]}

\* The roles of a child: the structural ones and some of each other kind,
\* as the browser spells them.
ChildRoles ==
    STRUCTURAL_ROLES
        \cup {"button", "link", "heading", "main", "StaticText", "paragraph", ""}

RoleInputs ==
    {<< RawNode("1", "RootWebArea", "Home", <<"2">>, 11),
        RawNode("2", role, name, <<>>, backend) >> :
        role \in ChildRoles, name \in {"", "A"}, backend \in {0, 12}}

\* A chain of a root and three descendants, each under the one before, so
\* that a node's depth tells which node it is. Each descendant is
\* interactive, content or structural, named or not, with or without a
\* backend node id.
ChainRoles == {"button", "heading", "group"}

ChainNode(id, child, a, backend) ==
    RawNode(id, a.role, a.name, IF child = "" THEN <<>> ELSE <<child>>,
            IF a.handle THEN backend ELSE 0)

ChainInputs ==
    {<< RawNode("1", "RootWebArea", "Home", <<"2">>, 11),
        ChainNode("2", "3", a[2], 12), ChainNode("3", "4", a[3], 13),
        ChainNode("4", "", a[4], 14) >> :
        a \in [2..4 -> [role : ChainRoles, name : {"", "A"}, handle : BOOLEAN]]}

\* Trees that refer back to a node above, so that the walk ends at the limit
\* only, and one that does not.
CycleInputs ==
    { << RawNode("1", "generic", "1", <<"1">>, 11) >>,
      << RawNode("1", "generic", "1", <<"2">>, 11),
         RawNode("2", "button", "2", <<"1">>, 12) >>,
      << RawNode("1", "RootWebArea", "1", <<"2", "3">>, 11),
         RawNode("2", "button", "2", <<>>, 12),
         RawNode("3", "link", "3", <<>>, 13) >> }

\* opts?.limit: absent, NaN, and numbers around both ends of the clamp,
\* whole and not.
Requests ==
    {LimitAbsent, LimitNaN}
        \cup {LimitOf(t) : t \in {-2, -1, 0, 1, 2, 3, 5, 3999, 4000, 4001, 4002}}

InitAx ==
    /\ readyState = "CONNECTING"
    /\ wsErrored = FALSE
    /\ nextId = 1
    /\ pending = EmptyMap
    /\ listeners = EmptyMap
    /\ sent = <<>>
    /\ calls = [c \in Callers |-> IdleCall]
    /\ NoWait
    /\ disc = NoDisc
    /\ fan = NoFan
    /\ dom = DomAny
    /\ tabs = EmptyMap
    /\ currentTabId = NoTab
    /\ currentSessionId = NoSession
    /\ refs = EmptyMap
    /\ pc = "off"
    /\ op = NoOp
    /\ ret = NoRet
    /\ targets = [t \in TargetIds |-> "unborn"]
    /\ snapValid = FALSE
    /\ snapMap = EmptyMap
    /\ \/ \E nodes \in GraphInputs \cup RoleInputs \cup ChainInputs,
             limit \in 1..MaxAxLimit :
             ax = [NoAx EXCEPT !.stage = "input", !.nodes = nodes,
                               !.limit = limit]
       \/ \E raw \in RefStrings : ax = [NoAx EXCEPT !.stage = "raw", !.raw = raw]
       \/ \E nodes \in CycleInputs, req \in Requests :
             ax = [NoAx EXCEPT !.stage = "request", !.nodes = nodes, !.req = req]

\* snapshot(): const limit = Math.max(1, Math.min(2000, Math.floor(...)))
LimitStep ==
    /\ ax.stage = "request"
    /\ ax' = [ax EXCEPT !.stage = "input", !.limit = SnapLimit(ax.req)]
    /\ UNCHANGED <<cdpVars, chromeVars, idleVars, disc, fan, dom>>

\* const axNodes = formatAriaSnapshot(nodes, limit)
FormatStep ==
    /\ ax.stage = "input"
    /\ ax' = [ax EXCEPT !.stage = "formatted",
                        !.out = FormatAriaSnapshot(ax.nodes, ax.limit)]
    /\ UNCHANGED <<cdpVars, chromeVars, idleVars, disc, fan, dom>>

\* buildSnapshot(axNodes)
BuildStep ==
    /\ ax.stage = "formatted"
    /\ ax' = [ax EXCEPT !.stage = "built", !.snap = BuildSnapshot(ax.out)]
    /\ UNCHANGED <<cdpVars, chromeVars, idleVars, disc, fan, dom>>

\* parseRef(raw)
ParseStep ==
    /\ ax.stage = "raw"
    /\ ax' = [ax EXCEPT !.stage = "parsed", !.parsed = ParseRef(ax.raw)]
    /\ UNCHANGED <<cdpVars, chromeVars, idleVars, disc, fan, dom>>

NextAx == LimitStep \/ FormatStep \/ BuildStep \/ ParseStep

SpecAx == InitAx /\ [][NextAx]_vars

(***************************************************************************)
(* cookies.ts: setCookie, importCookies; index.ts: ChromeAgent             *)
(* .importCookies.  The json is either not JSON or an array of cookie      *)
(* records, each known by its name.                                        *)
(***************************************************************************)
MaxCookies == 3

CookieNames == {"a", "b"}
BadJson == <<"{">>
CookieLists == UNION {[1..n -> CookieNames] : n \in 0..MaxCookies}

SyntaxError == "SyntaxError"

\* `Failed to set cookie "${cookie.name}"`
FailedToSet(name) ==
    IF name = "a" THEN "Failed to set cookie \"a\"" ELSE "Failed to set cookie \"b\""

\* ChromeAgent.importCookies(json) -> importCookies(): JSON.parse(json),
\* then setCookie for the first record: cdp.send("Network.setCookie").
ImportCookies(json) ==
    /\ AgentIdle
    /\ IF json = BadJson
       THEN /\ Return([NoOp EXCEPT !.name = "importCookies"], "error", SyntaxError)
            /\ UNCHANGED <<sockVars, listeners, tabVars, refs, targets, snapValid,
                           snapMap>>
       ELSE IF json = <<>>
       THEN /\ Return([NoOp EXCEPT !.name = "importCookies"], "ok", "")
            /\ UNCHANGED <<sockVars, listeners, tabVars, refs, targets, snapValid,
                           snapMap>>
       ELSE /\ Step("ck_set",
                    [NoOp EXCEPT !.name = "importCookies", !.cookies = json, !.k = 1],
                    "Network.setCookie", [name |-> json[1]], currentSessionId)
            /\ UNCHANGED <<sockVars, listeners, tabVars, refs, targets, snapValid,
                           snapMap>>
    /\ UNCHANGED restVars

\* importCookies going on to the next record whatever the response says.
CookieSetGoesOn ==
    /\ Resumes("ck_set")
    /\ IF Call.state = "rejected" THEN Throw
       ELSE IF op.k = Len(op.cookies) THEN Return(op, "ok", "")
       ELSE Step("ck_set", [op EXCEPT !.k = @ + 1], "Network.setCookie",
                 [name |-> op.cookies[op.k + 1]], currentSessionId)
    /\ UNCHANGED <<sockVars, listeners, tabVars, refs, targets, snapValid, snapMap>>
    /\ UNCHANGED restVars

\* setCookie after its await: if (!result?.success) throw; then the loop of
\* importCookies goes to the next record, or returns.
CookieSet ==
    /\ Resumes("ck_set")
    /\ IF Call.state = "rejected" THEN Throw
       ELSE IF ~(Has(Call.result, "success") /\ Call.result.success)
       THEN Return(op, "error", FailedToSet(op.cookies[op.k]))
       ELSE IF op.k = Len(op.cookies) THEN Return(op, "ok", "")
       ELSE Step("ck_set", [op EXCEPT !.k = @ + 1], "Network.setCookie",
                 [name |-> op.cookies[op.k + 1]], currentSessionId)
    /\ UNCHANGED <<sockVars, listeners, tabVars, refs, targets, snapValid, snapMap>>
    /\ UNCHANGED restVars

(***************************************************************************)
(* SpecCookies: a caller of importCookies.  As in SpecNav, a ready         *)
(* continuation runs before the socket's next event.                       *)
(***************************************************************************)
CookieReady == pc = "done" \/ Settled(Call)

NextCookies ==
    \/ \E json \in CookieLists \cup {BadJson} : ImportCookies(json)
    \/ CookieSet
    \/ Continue
    \/ \E err \in {NoErr, ProtoErr},
          result \in ResultsFor("Network.setCookie") \cup {NoResult} :
          AgentResponse(err, result)
    \/ ~CookieReady /\ SocketError
    \/ ~CookieReady /\ SocketClose

SpecCookies == InitAgent /\ [][NextCookies]_vars

(***************************************************************************)
(* SpecTabs: the tab table under tab operations, target events and         *)
(* dispose().                                                              *)
(***************************************************************************)
Titles == {"t"}

\* tabs.dispose(), called on its own.
TabsDispose ==
    /\ pc = "idle"
    /\ Return([NoOp EXCEPT !.name = "dispose"], "ok", "")
    /\ listeners' = Dispose(listeners)
    /\ UNCHANGED <<sockVars, tabVars, refs, targets, snapValid, snapMap>>
    /\ UNCHANGED restVars

TabEvent ==
    /\ pc # "done"
    /\ \/ \E t \in TargetIds : EvTargetDestroyed(t)
       \/ \E t \in TargetIds \cup {Undef}, url \in Urls \cup {Undef},
             title \in Titles \cup {Undef} : EvTargetInfoChanged(t, url, title)
       \/ \E t \in TargetIds : EvTargetCreated(t)

NextTabs ==
    \/ \E url \in Urls \cup {Undef} : NewTab(url)
    \/ \E t \in TargetIds \cup {Undef} : CloseTab(t)
    \/ TabsDispose
    \/ NewCreated \/ NewAttached
    \/ CloseTargetDone
    \/ Continue
    \/ \E err \in {NoErr, ProtoErr}, result \in AnyResult :
          AgentResponse(err, result)
    \/ TabEvent
    \/ AgentSocket

SpecTabs == InitAgent /\ [][NextTabs]_vars

(***************************************************************************)
(* SpecAct: a caller of snapshot, click, type, select and check on a page  *)
(* whose node either resolves to an object or does not, and either has    *)
(* geometry or has none, for the whole behaviour.                          *)
(***************************************************************************)
InitAct == \E d \in DomStates : InitAgentOn(d)

NextAct ==
    \/ Snapshot
    \/ \E name \in ActionNames, raw \in RefInputs, checked \in BOOLEAN :
          Action(name, raw, checked)
    \/ SnapEnabled \/ SnapTree
    \/ ClickScrolled \/ ClickQuads \/ ClickPressed \/ ClickReleased
    \/ ObjResolved \/ TypeFocused \/ TypeCleared \/ TypeInserted
    \/ SelCalled \/ ChkRead
    \/ Continue
    \/ \E err \in {NoErr, ProtoErr}, result \in AnyResult :
          AgentResponse(err, result)
    \/ AgentSocket

SpecAct == InitAct /\ [][NextAct]_vars

(***************************************************************************)
(* SpecNav: a caller of navigate and reload.  The event loop runs a        *)
(* continuation whose awaited promise has settled, and hands the           *)
(* operation's outcome to the caller: these steps are weakly fair.  The    *)
(* browser and the socket owe nothing.                                     *)
(***************************************************************************)
NavResume ==
    \/ NavEnabled \/ NavNavigated \/ NavLoaded \/ NavFronted
    \/ RlEnabled \/ RlReloaded \/ RlLoaded

\* A continuation is ready: it runs in the microtasks that follow the
\* settling of its promise, before the socket's next event is handled.
Ready ==
    \/ pc = "done"
    \/ Settled(Call)
    \/ pc \in {"nav_load", "rl_load"} /\ op.loaded

NextNav ==
    \/ \E url \in Urls : Navigate(url)
    \/ Reload
    \/ NavResume
    \/ Continue
    \/ \E err \in {NoErr, ProtoErr}, result \in AnyResult :
          AgentResponse(err, result)
    \/ ~Ready /\ \E s \in Sessions : EvLoad(s)
    \/ ~Ready /\ SocketError
    \/ ~Ready /\ SocketClose

SpecNav ==
    InitAgent /\ [][NextNav]_vars /\ WF_vars(NavResume) /\ WF_vars(Continue)

(***************************************************************************)
(* Claims about the transport, checked under SpecCdp.                      *)
(***************************************************************************)
\* The calls a response with this id is for: suspended on that id, with the
\* continuation still registered.
AwaitsResponse(c, id) ==
    /\ calls[c].state = "suspended"
    /\ calls[c].id = id
    /\ id \in DOMAIN pending

\* C1: whatever calls are in flight and in whatever order responses arrive, a
\* response with id N settles the pending call that was assigned id N (with N
\* recorded as what settled it), leaves every other call as it was, and
\* changes nothing at all when no call is pending on N.
C1_ResponseSettlesMatchingCall ==
    [][\A id \in 1..(MaxId + 1), err \in ErrPayloads :
          OnResponse(id, err, OkResult) =>
            /\ \A c \in Callers :
                  IF AwaitsResponse(c, id)
                  THEN Settled(calls'[c]) /\ calls'[c].by = id
                       /\ calls'[c].id = id
                  ELSE calls'[c] = calls[c]
            /\ id \notin DOMAIN pending => UNCHANGED cdpVars
            /\ pending' = MapRemove(pending, id)]_vars

\* C1 witness: responses arrived out of order: a call was settled by the
\* response carrying its own id while a call with a smaller id is still
\* suspended and pending.
C1_Witness ==
    \E c, d \in RawCallers :
        /\ Settled(calls[c]) /\ calls[c].by = calls[c].id /\ calls[c].id > 0
        /\ AwaitsResponse(d, calls[d].id)
        /\ calls[d].id < calls[c].id

\* The socket's 'error' event is handled in this step.
SocketErrorStep == ~wsErrored /\ wsErrored'

\* The socket's 'close' event is handled in this step.
SocketCloseStep == readyState # "CLOSED" /\ readyState' = "CLOSED"

\* C2: when the socket reports an error or closes, every command pending at
\* that moment is rejected with an error, and the pending map is empty
\* afterwards.
C2_TeardownRejectsAllPending ==
    [][(SocketErrorStep \/ SocketCloseStep) =>
          /\ \A id \in DOMAIN pending :
                /\ calls'[pending[id]].state = "rejected"
                /\ calls'[pending[id]].err \in {WsError, SocketClosedError}
          /\ pending' = EmptyMap]_vars

\* C2 witness: two calls were pending together and both were rejected by a
\* teardown; nothing is pending any more.
C2_Witness ==
    /\ pending = EmptyMap
    /\ \E c, d \in RawCallers :
          /\ c # d
          /\ calls[c].state = "rejected" /\ calls[c].by = -1
          /\ calls[d].state = "rejected" /\ calls[d].by = -1

\* C3 (as claimed): close() fails every pending command, so once the socket
\* has closed no send() is still suspended.
C3_CloseRejectsPending ==
    readyState = "CLOSED" => \A c \in Callers : calls[c].state # "suspended"

\* A send() call starts in this step.
SendStep(c) == calls[c].state = "idle" /\ calls'[c].state # "idle"

\* C4: while the socket is not open, send() fails at once with the
\* not-connected error, transmits nothing, consumes no id and registers no
\* continuation.
C4_SendWhenNotOpen ==
    [][\A c \in Callers :
          (SendStep(c) /\ readyState # "OPEN") =>
            /\ calls'[c].state = "rejected"
            /\ calls'[c].err = NotOpenError
            /\ calls'[c].id = 0
            /\ UNCHANGED <<sent, nextId, pending>>]_vars

\* C4 witness: send() was refused on a socket that is closing while an
\* earlier call is still suspended.
C4_Witness ==
    /\ readyState = "CLOSING"
    /\ \E c, d \in RawCallers :
          /\ calls[c].state = "rejected" /\ calls[c].err = NotOpenError
          /\ calls[d].state = "suspended"

(***************************************************************************)
(* Claims about the reference map and the tabs, checked under SpecAgent.   *)
(***************************************************************************)
\* The action name was called with raw: it has ended, or it is suspended.
CalledWith(name, raw) ==
    \/ pc = "done" /\ ret.op = name /\ ret.ref = raw
    \/ pc \notin {"idle", "done"} /\ op.name = name /\ op.ref = raw

\* C5: click, type, select and check called with a well-formed token that is
\* absent from the current reference map fail with the ref-not-found error;
\* called with a malformed token they fail with the invalid-reference error,
\* which is a different one.
C5_AbsentTokenIsRefNotFound ==
    [][\A name \in ActionNames, raw \in RefInputs :
          (pc = "idle" /\ CalledWith(name, raw)') =>
             /\ (ParseRef(raw) # NoRef /\ ParseRef(raw) \notin DOMAIN refs) =>
                    /\ pc' = "done"
                    /\ ret'.outcome = "error"
                    /\ ret'.err = RefNotFound
             /\ ParseRef(raw) = NoRef =>
                    /\ pc' = "done"
                    /\ ret'.outcome = "error"
                    /\ ret'.err = InvalidRef
             /\ RefNotFound # InvalidRef]_vars

\* An action has just failed for a token that the last snapshot's map held and
\* the current map does not hold.
C5_Witness ==
    /\ pc = "done"
    /\ ret.op \in ActionNames
    /\ ret.err = RefNotFound
    /\ ParseRef(ret.ref) \in DOMAIN snapMap
    /\ ParseRef(ret.ref) \notin DOMAIN refs

\* The operations after whose return the reference map is to be empty.
ClearsRefs(r) ==
    \/ r.op \in {"navigate", "back", "forward", "reload", "switchTab"}
    \/ r.op = "closeTab" /\ r.wasCurrent

\* C6: when navigate, back, forward, reload, switchTab or closeTab of the
\* current tab returns, the reference map is empty and no token resolves.
C6_NavigationClearsRefs ==
    (pc = "done" /\ ret.outcome = "ok" /\ ClearsRefs(ret)) =>
        /\ refs = EmptyMap
        /\ \A raw \in RefInputs : ~ResolveRef(raw, refs).ok

\* reload has returned, and the map held tokens until it did.
C6_Witness ==
    /\ pc = "done"
    /\ ret.op = "reload"
    /\ ret.outcome = "ok"
    /\ ret.hadRefs
    /\ refs = EmptyMap

\* C7: a token that an action has resolved comes from the map of the most
\* recent snapshot completed on the current session, and no page-changing
\* command was transmitted for that session, nor any tab switch made, after
\* that snapshot.
C7_ResolvedTokenIsFresh ==
    (pc \notin {"idle", "done"} /\ op.name \in ActionNames) =>
        /\ snapValid
        /\ ParseRef(op.ref) \in DOMAIN snapMap
        /\ snapMap[ParseRef(op.ref)] = op.node

\* C8: the agent's current tab id, if set, is a key of the tab table, and the
\* current session id is the one stored in that record.
C8_CurrentTabTracked ==
    currentTabId # NoTab =>
        /\ currentTabId \in DOMAIN tabs
        /\ tabs[currentTabId].sessionId = currentSessionId

\* The operation that has ended transmitted the command.
Transmitted(method) == \E i \in 1..Len(sent) : sent[i].method = method

\* C9: once closeTab(tabId) has transmitted its close-target command and has
\* ended, the table holds no record for tabId, whatever the command's outcome.
C9_CloseTabRemovesRecord ==
    (pc = "done" /\ ret.op = "closeTab" /\ Transmitted("Target.closeTarget")) =>
        ret.tab \notin DOMAIN tabs


(***************************************************************************)
(* Claims about waitForNetworkIdle, checked under SpecIdle.                *)
(***************************************************************************)
\* The wait is pending: its timers are set up and it has not resolved.
Waiting == pc = "idle_wait" /\ resolved = 0

\* C10: while the wait is pending, nothing is in flight and no request has
\* started since the last finish or fail event, no more than idleMs ticks have
\* passed since that event; and while the wait is pending no more than
\* timeoutMs ticks have passed since its timers were set up.
C10_ResolvesWithinIdleOrTimeout ==
    Waiting =>
        /\ (sinceFinish # NoTimer /\ inflight = 0) => sinceFinish <= op.idleMs
        /\ sinceSetup <= op.timeoutMs

\* The wait has resolved by the idle timer, idleMs after a request it had
\* counted finished, before the overall timeout.
C10_Witness ==
    /\ pc = "idle_wait"
    /\ resolved = 1
    /\ inflight = 0
    /\ counted
    /\ sinceFinish = op.idleMs
    /\ sinceSetup < op.timeoutMs

\* The overall timeout of the wait fires in this step.
TimeoutStep == timeout = 0 /\ timeout' = NoTimer

\* The 5 s timer of the discovery fires in this step.
DiscTimeoutStep == disc.timer = "armed" /\ disc'.timer = "fired"

\* C11: the overall timeout reached with requests still in flight resolves the
\* wait; once the listeners are registered the wait ends only by returning
\* normally; the timer of the discovery, when it fires, fails the discovery
\* with the timeout error.
C11_TimeoutIsSoftSuccess ==
    [][/\ (TimeoutStep /\ inflight > 0) => resolved' = 1
       /\ pc = "idle_wait" =>
             /\ pc' \in {"idle_wait", "done"}
             /\ pc' = "done" =>
                   ret'.op = "waitForNetworkIdle" /\ ret'.outcome = "ok"
       /\ DiscTimeoutStep =>
             disc'.state = "failed" /\ disc'.err = DiscoveryTimeout]_vars

\* The wait has resolved at its overall timeout with a request in flight,
\* while a discovery has failed by its timer.
C11_Witness ==
    /\ pc = "idle_wait"
    /\ resolved = 1
    /\ inflight > 0
    /\ sinceSetup = op.timeoutMs
    /\ disc.state = "failed"
    /\ disc.err = DiscoveryTimeout

\* The network handlers of waitForNetworkIdle that are still registered.
NetworkHandlers ==
    (Handlers("Network.requestWillBeSent") \cap {HRequest})
        \cup (Handlers("Network.loadingFinished") \cap {HFinish})
        \cup (Handlers("Network.loadingFailed") \cap {HFinish})

\* The wait's promise has resolved and waitForNetworkIdle has not returned yet.
Finished == pc = "idle_wait" /\ resolved > 0

\* C12: waitForNetworkIdle resolves exactly once; when it has resolved, by the
\* idle timer or by the overall timeout, none of its three network listeners
\* is registered and neither timer is armed, and no later step changes the
\* finished wait's counter, timers or resolution count.
C12_ResolvedOnceAndReleased ==
    [][/\ resolved' <= 1
       /\ Finished' => /\ NetworkHandlers' = {}
                       /\ timer' = NoTimer
                       /\ timeout' = NoTimer
       /\ (Finished /\ Finished') => UNCHANGED <<inflight, timer, timeout, resolved>>]_vars

\* Both timers were due at the same tick, and the wait resolved once.
C12_Witness ==
    /\ Finished
    /\ op.idleMs = op.timeoutMs
    /\ sinceSetup = op.timeoutMs
    /\ sinceFinish = NoTimer
    /\ inflight = 0
    /\ readyState = "OPEN"

\* This step puts a Page.navigate or Page.reload command on the wire.
TransmitsLoadCommand ==
    /\ Len(sent') = Len(sent) + 1
    /\ sent'[Len(sent')].method \in {"Page.navigate", "Page.reload"}

\* The load handler of the running navigate / reload is registered.
LoadHandlerOn == HLoad(op.h) \in Handlers("Page.loadEventFired")

\* This step unregisters the load handler of the running navigate / reload.
LoadHandlerRuns ==
    /\ op.h # 0
    /\ LoadHandlerOn
    /\ "Page.loadEventFired" \in DOMAIN listeners'
    /\ HLoad(op.h) \notin listeners'["Page.loadEventFired"]

\* This step ends a navigate or a reload with a normal return.
LoadOpReturns ==
    /\ pc # "done"
    /\ pc' = "done"
    /\ ret'.op \in {"navigate", "reload"}
    /\ ret'.outcome = "ok"

\* C13: navigate and reload have their load handler registered when the
\* Page.navigate / Page.reload command goes on the wire; the operation's
\* loaded promise resolves only in a dispatch that runs this handler, the
\* operation returns normally only with loaded resolved, and a load event
\* dispatched before the command's response is processed resolves loaded for
\* good (the resolution is still there after the response).
C13_LoadAwaitedAfterRegistration ==
    [][/\ TransmitsLoadCommand => LoadHandlerOn'
       /\ (op'.loaded /\ ~op.loaded) =>
              /\ pc \in {"nav_navigate", "nav_load", "rl_reload", "rl_load"}
              /\ LoadHandlerRuns
       /\ LoadHandlerRuns => op'.loaded
       /\ LoadOpReturns => op.loaded
       /\ (op.loaded /\ pc \in {"nav_navigate", "rl_reload"}) =>
              \/ op'.loaded
              \/ pc' = "done" /\ ret'.outcome = "error"]_vars

\* The load event was dispatched while the response of Page.navigate was
\* still outstanding.
C13_Witness ==
    /\ pc = "nav_navigate"
    /\ op.loaded
    /\ Call.state = "suspended"
    /\ ~LoadHandlerOn

\* The settled Page.navigate response carries a non-empty error text.
HasErrorText ==
    /\ pc = "nav_navigate"
    /\ Call.state = "resolved"
    /\ Field(Call.result, "errorText") \notin {Undef, ""}

\* The commands of the given method the finished operation transmitted.
SentMethods == {sent[i].method : i \in 1..Len(sent)}

\* C14: when the response of Page.navigate carries a non-empty error text,
\* the next step of navigate ends it with the navigation-failed error,
\* whether a load event has arrived or not, and the operation has not
\* transmitted Page.bringToFront.
C14_ErrorTextFailsAtOnce ==
    [][(HasErrorText /\ pc' # pc) =>
          /\ pc' = "done"
          /\ ret'.op = "navigate"
          /\ ret'.outcome = "error"
          /\ ret'.err = NavigationFailed
          /\ sent' = sent
          /\ "Page.bringToFront" \notin SentMethods']_vars

\* navigate failed on an error text although the page's load event had
\* not arrived: its load handler is still registered.
C14_Witness ==
    /\ pc = "done"
    /\ ret.op = "navigate"
    /\ ret.err = NavigationFailed
    /\ "Page.navigate" \in SentMethods
    /\ \E h \in Handlers("Page.loadEventFired") : h.h = "load"

\* navigate / reload is suspended on its loaded promise.
AwaitsLoad == pc \in {"nav_load", "rl_load"} /\ ~op.loaded

\* C15 (as claimed): when the socket has errored or closed while navigate
\* or reload awaits the load event, the operation ends with a failure.
C15_TeardownEndsLoadWait ==
    (AwaitsLoad /\ (wsErrored \/ readyState = "CLOSED"))
        ~> (pc = "done" /\ ret.outcome = "error")

\* The id of the history entry just before (back) or just after (forward)
\* the current one, 0 when the current entry is the first (last) one or the
\* history is empty. Positions count from 0 as in the protocol.
AdjacentEntry(name, result) ==
    LET idx == CurrentIndex(result)
        es == Entries(result)
        at == IF name = "back" THEN idx - 1 ELSE idx + 1
    IN  IF at >= 0 /\ at < Len(es) THEN es[at + 1] ELSE 0

\* The navigate-to-history-entry commands the operation has transmitted.
HistoryCommands ==
    {i \in 1..Len(sent) : sent[i].method = "Page.navigateToHistoryEntry"}

\* C16: when back / forward resumes with the history on an open socket and
\* the adjacent entry exists, it transmits one navigate-to-history-entry
\* command for that entry; when there is none it transmits nothing and
\* returns without error; the operation never transmits a second one.
C16_HistoryNeighbourOnly ==
    [][/\ (pc = "hist_get" /\ Call.state = "resolved" /\ pc' # pc) =>
            LET want == AdjacentEntry(op.name, Call.result)
            IN  IF want = 0
                THEN /\ sent' = sent
                     /\ pc' = "done"
                     /\ ret'.op = op.name
                     /\ ret'.outcome = "ok"
                ELSE IF readyState = "OPEN"
                THEN sent' = Append(sent,
                        [id |-> nextId, method |-> "Page.navigateToHistoryEntry",
                         params |-> [entryId |-> want],
                         sessionId |-> currentSessionId])
                ELSE sent' = sent
       /\ pc = "hist_go" => sent' = sent /\ pc' \in {"hist_go", "done"}
       /\ Cardinality(HistoryCommands') <= 1]_vars

\* back has returned after navigating to the entry before the current one.
C16_Witness ==
    /\ pc = "done"
    /\ ret.op = "back"
    /\ ret.outcome = "ok"
    /\ \E i \in HistoryCommands : sent[i].params.entryId = 7

\* C17 (as claimed): a response that carries an error payload rejects the
\* call that awaits it, with the payload's message; it never resolves it.
C17_ErrorPayloadFailsCall ==
    [][\A id \in 1..(MaxId + 1), err \in ErrPayloads :
          (OnResponse(id, err, OkResult) /\ err.present) =>
            \A c \in Callers :
                AwaitsResponse(c, id) =>
                    /\ calls'[c].state = "rejected"
                    /\ calls'[c].err = err.message]_vars

\* How many times the last dispatch called the handler.
TimesInvoked(h) == Cardinality({i \in 1..Len(fan.invoked) : fan.invoked[i] = h})

\* A handler called earlier in the last dispatch had unregistered h.
Dropped(h) == \E g \in fan.before : g.h = "drops" /\ g.n < h.n

\* The handlers registered for the other events only.
OnlyElsewhere ==
    {kind \in UserHandlers :
        /\ ~Registered(fan.before, kind)
        /\ \E e \in UserEvents \ {fan.method} :
              Registered(HandlersIn(listeners, e), kind)}

\* C18 (as claimed): the dispatch of an event calls every handler that was
\* registered for its method when the message arrived exactly once.
C18_EveryHandlerInvoked ==
    \A h \in fan.before : TimesInvoked(h) = 1

\* C18 (amended): the dispatch of an event calls once every handler that
\* was registered for its method when the message arrived and that no
\* handler called earlier in the same dispatch has unregistered, also after
\* a handler has thrown in this dispatch or in the one before; it calls no
\* handler registered for other methods only.
C18_EveryLiveHandlerInvoked ==
    /\ \A h \in fan.before : TimesInvoked(h) = IF Dropped(h) THEN 0 ELSE 1
    /\ \A i \in 1..Len(fan.invoked) :
          /\ fan.invoked[i] \in fan.before
          /\ fan.invoked[i].h \notin OnlyElsewhere

\* In a dispatch that follows one in which a handler threw, the throwing
\* handler was called first and the returning one after it, while another
\* handler is registered for the other event only.
C18_Witness ==
    /\ fan.earlier
    /\ Len(fan.invoked) = 2
    /\ fan.invoked[1].h = "throws"
    /\ fan.invoked[2].h = "returns"
    /\ "drops" \in OnlyElsewhere

(***************************************************************************)
(* Claims about the snapshot functions, checked under SpecAx.              *)
(***************************************************************************)
\* The raw node with the id (ids are distinct in the inputs), 0 if none.
NodeAt(nodes, id) ==
    IF \E i \in 1..Len(nodes) : nodes[i].nodeId = id
    THEN CHOOSE i \in 1..Len(nodes) : nodes[i].nodeId = id
    ELSE 0

\* The first raw node that no node lists as a child, 0 if every node is
\* listed.
FirstUnlisted(nodes) ==
    LET listed == {id \in AxIds \cup {UnknownId} :
                     \E i \in 1..Len(nodes), j \in 1..2 :
                        j <= Len(nodes[i].childIds) /\ nodes[i].childIds[j] = id}
        free == {i \in 1..Len(nodes) : nodes[i].nodeId \notin listed}
    IN  IF free = {} THEN 0 ELSE CHOOSE i \in free : \A j \in free : i <= j

\* The first max visits of the pre-order walk from the node with the id:
\* the node, at the given number of edges from the root, then the walks of
\* its children in their listed order, one edge further.
RECURSIVE PreOrder(_, _, _, _)
RECURSIVE PreOrderEach(_, _, _, _)
PreOrder(nodes, id, edges, max) ==
    IF max = 0 \/ NodeAt(nodes, id) = 0 THEN <<>>
    ELSE <<[backend |-> nodes[NodeAt(nodes, id)].backend, depth |-> edges]>>
            \o PreOrderEach(nodes, nodes[NodeAt(nodes, id)].childIds, edges + 1,
                            max - 1)

PreOrderEach(nodes, ids, edges, max) ==
    IF ids = <<>> \/ max = 0 THEN <<>>
    ELSE LET first == PreOrder(nodes, Head(ids), edges, max)
         IN  first \o PreOrderEach(nodes, Tail(ids), edges, max - Len(first))

\* What formatAriaSnapshot returned: each entry's node and depth.
Visited == [i \in 1..Len(ax.out) |->
               [backend |-> ax.out[i].backend, depth |-> ax.out[i].depth]]

\* C19: when some raw node is listed among no node's children, the result
\* of formatAriaSnapshot is the pre-order walk from the first such node, the
\* children of each node in their listed order and each entry's depth its
\* number of edges from that root, cut at the limit.
C19_PreOrderFromFirstUnlisted ==
    (ax.stage \in {"formatted", "built"} /\ FirstUnlisted(ax.nodes) # 0) =>
        Visited = PreOrder(ax.nodes, ax.nodes[FirstUnlisted(ax.nodes)].nodeId, 0,
                           ax.limit)

\* The root is the list's last node; it lists 3 before 1, and 3 has the
\* child 1 of its own: the walk is 2, 3, 1 (under 3), 1 (under 2).
C19_Witness ==
    /\ ax.stage = "formatted"
    /\ Len(ax.nodes) = 3
    /\ ax.nodes[3].nodeId = "2"
    /\ ax.nodes[3].childIds = <<"3", "1">>
    /\ Visited = << [backend |-> 12, depth |-> 0], [backend |-> 13, depth |-> 1],
                    [backend |-> 11, depth |-> 2], [backend |-> 11, depth |-> 1] >>

\* buildSnapshot was given a root and one child of a structural role.
StructuralChild ==
    /\ ax.stage = "built"
    /\ Len(ax.nodes) = 2
    /\ Len(ax.out) = 2
    /\ ax.out[2].role \in STRUCTURAL_ROLES

\* The lines buildSnapshot emitted for the child (the root is at depth 0).
ChildLines == {i \in 1..Len(ax.snap.lines) : ax.snap.lines[i].depth = 1}

\* The child has exactly one line: its role and name, and no token.
ChildEmittedBare ==
    /\ Cardinality(ChildLines) = 1
    /\ \A i \in ChildLines :
          /\ ax.snap.lines[i].role = ax.out[2].role
          /\ ax.snap.lines[i].name = ax.out[2].name
          /\ ax.snap.lines[i].ref = <<>>
    /\ \A t \in DOMAIN ax.snap.refs : ax.snap.refs[t] # ax.out[2].backend

\* C20 (as claimed): buildSnapshot omits a node of a structural role whose
\* name is empty and emits a line without token for a node of a structural
\* role whose name is not empty.
C20_StructuralByName ==
    StructuralChild =>
        IF ax.out[2].name = "" THEN ChildLines = {} ELSE ChildEmittedBare

\* C20 (amended): the same for every structural role but none and
\* presentation; a node of role none or presentation is omitted whether
\* it has a name or not.
C20_StructuralByNameButNone ==
    StructuralChild =>
        IF ax.out[2].name = "" \/ ax.out[2].role \in {"none", "presentation"}
        THEN ChildLines = {}
        ELSE ChildEmittedBare

\* A named toolbar with a backend node id was emitted without a token.
C20_Witness ==
    /\ StructuralChild
    /\ ax.out[2].role = "toolbar"
    /\ ax.out[2].name = "A"
    /\ ax.out[2].backend = 12
    /\ ChildEmittedBare
    /\ Len(ax.snap.lines) = 2

\* The lines of the built snapshot that carry a token, first to last.
TaggedLines ==
    LET F[i \in 0..Len(ax.snap.lines)] ==
            IF i = 0 THEN <<>>
            ELSE IF ax.snap.lines[i].ref # <<>> THEN Append(F[i - 1], i)
                 ELSE F[i - 1]
    IN  F[Len(ax.snap.lines)]

\* buildSnapshot was given a chain: the node of a line is the one at the
\* line's depth.
ChainBuilt == ax.stage = "built" /\ ax.nodes \in ChainInputs

\* The digits of k, for the k a chain can reach.
Numeral(k) == CASE k = 1 -> "1" [] k = 2 -> "2" [] k = 3 -> "3" [] OTHER -> "4"

\* C21: the k-th line that carries a token carries ek, the keys of the
\* reference map are e1..en for the n tagged lines, and each key maps to
\* the backend node id of the node rendered on its line.
C21_TokensConsecutive ==
    ChainBuilt =>
        /\ \A k \in 1..Len(TaggedLines) :
              LET line == ax.snap.lines[TaggedLines[k]]
              IN  /\ line.ref = <<"e", Numeral(k)>>
                  /\ line.ref \in DOMAIN ax.snap.refs
                  /\ ax.snap.refs[line.ref] = ax.out[line.depth + 1].backend
        /\ DOMAIN ax.snap.refs = {<<"e", Numeral(k)>> : k \in 1..Len(TaggedLines)}

\* Two lines carry a token and an emitted line without token stands
\* between them: the button at depth 1 has e1, the heading at depth 3 e2
\* (the first line is the root's).
C21_Witness ==
    /\ ChainBuilt
    /\ Len(ax.snap.lines) = 4
    /\ Len(TaggedLines) = 2
    /\ ax.snap.lines[2].role = "button" /\ ax.snap.lines[2].ref = <<"e", "1">>
    /\ ax.snap.lines[3].role = "group" /\ ax.snap.lines[3].ref = <<>>
    /\ ax.snap.lines[4].role = "heading" /\ ax.snap.lines[4].ref = <<"e", "2">>
    /\ ax.snap.refs[<<"e", "2">>] = 14

\* The string between the leading and the trailing blanks of raw.
Core(raw) ==
    LET inked == {i \in 1..Len(raw) : raw[i] # " "}
    IN  IF inked = {} THEN <<>>
        ELSE SubSeq(raw, CHOOSE i \in inked : \A j \in inked : i <= j,
                         CHOOSE i \in inked : \A j \in inked : j <= i)

\* The letter e followed by one or more digits.
IsToken(str) ==
    /\ Len(str) >= 2
    /\ str[1] = "e"
    /\ \A i \in 2..Len(str) : str[i] \in {"1", "2"}

\* The string without one leading @, if it has one.
WithoutAt(str) == IF str # <<>> /\ str[1] = "@" THEN SubSeq(str, 2, Len(str)) ELSE str

\* C22: parseRef returns the trimmed input without one leading @ exactly
\* when that is the letter e followed by one or more digits, and no match
\* for every other input.
C22_ParseRefCanonical ==
    ax.stage = "parsed" =>
        ax.parsed = IF IsToken(WithoutAt(Core(ax.raw)))
                    THEN WithoutAt(Core(ax.raw))
                    ELSE NoRef

\* "@e12" gave "e12".
C22_Witness ==
    /\ ax.stage = "parsed"
    /\ ax.raw = <<"@", "e", "1", "2">>
    /\ ax.parsed = <<"e", "1", "2">>


(***************************************************************************)
(* C23.  importCookies transmits one Network.setCookie per record in       *)
(* array order, each after the previous one's response; at the first       *)
(* record whose command does not report success it fails with an error     *)
(* naming that cookie and transmits nothing for the later records.  As     *)
(* stated, for every command that does not come back with success.         *)
(***************************************************************************)
ImportEnds == pc = "ck_set" /\ pc' = "done"
ImportGoesOn == pc = "ck_set" /\ Settled(Call) /\ pc' = "ck_set"
ReportsSuccess ==
    Call.state = "resolved" /\ Has(Call.result, "success") /\ Call.result.success

\* The commands on the wire are set-cookie for the first n records, in order.
SetCookiesSent(log, n) ==
    /\ Len(log) = n
    /\ \A i \in 1..n :
          /\ log[i].method = "Network.setCookie"
          /\ log[i].params.name = op.cookies[i]

C23_FailureNamesCookie ==
    [][(ImportEnds /\ ret'.outcome = "error")
          => ret'.err = FailedToSet(op.cookies[op.k])]_vars

(***************************************************************************)
(* C23, amended.  One Network.setCookie per record in array order, each    *)
(* after the previous one's successful response.  At the first record      *)
(* whose response does not report success importCookies fails with an      *)
(* error naming that cookie; at the first record whose command is          *)
(* rejected it fails with the rejection's own error.  Either way nothing   *)
(* more is transmitted, and it succeeds only after every record reported   *)
(* success.                                                                *)
(***************************************************************************)
C23_StopsAtFirstFailure ==
    [][/\ ImportGoesOn =>
             /\ ReportsSuccess
             /\ op'.k = op.k + 1
             /\ SetCookiesSent(sent, op.k)
             /\ (readyState = "OPEN" => SetCookiesSent(sent', op.k + 1))
       /\ ImportEnds =>
             /\ sent' = sent
             /\ Call.state = "resolved" => SetCookiesSent(sent, op.k)
             /\ (Call.state = "resolved" /\ ~ReportsSuccess) =>
                   /\ ret'.outcome = "error"
                   /\ ret'.err = FailedToSet(op.cookies[op.k])
             /\ Call.state = "rejected" =>
                   /\ ret'.outcome = "error"
                   /\ ret'.err = Call.err
             /\ ret'.outcome = "ok" =>
                   /\ ReportsSuccess
                   /\ op.k = Len(op.cookies)]_vars

\* The second of three records came back with success false: the import
\* failed naming it, two commands on the wire.
C23_Witness ==
    /\ pc = "done"
    /\ ret.op = "importCookies"
    /\ ret.err = FailedToSet("b")
    /\ Len(sent) = 2
    /\ sent[1].params = [name |-> "a"]
    /\ sent[2].params = [name |-> "b"]



(***************************************************************************)
(* C24.  dispose() unregisters both target handlers and does nothing       *)
(* else: it transmits no command, leaves the socket as it is and removes   *)
(* no tab record.  From then on no step other than a continuation of the   *)
(* caller's own tab operation (so no target-destroyed and no               *)
(* target-info-changed event) changes the tab table.                       *)
(***************************************************************************)
Disposed ==
    /\ HDestroyed \notin Handlers("Target.targetDestroyed")
    /\ HInfoChanged \notin Handlers("Target.targetInfoChanged")

DisposeReturns == pc = "idle" /\ pc' = "done" /\ ret'.op = "dispose"

C24_DisposedIgnoresTargetEvents ==
    [][/\ DisposeReturns =>
             /\ Disposed'
             /\ sent' = sent
             /\ readyState' = readyState
             /\ pending' = pending
             /\ tabs' = tabs
       /\ Disposed => Disposed'
       /\ (Disposed /\ pc' = pc) => tabs' = tabs]_vars

\* After dispose, on an open socket, the target of a recorded tab was
\* reported destroyed and the record is still there.
C24_Witness ==
    /\ Disposed
    /\ pc = "idle"
    /\ readyState = "OPEN"
    /\ \E t \in DOMAIN tabs : targets[t] = "dead"



(***************************************************************************)
(* C25.  Command ids are 1, 2, 3, ... in transmission order (so strictly   *)
(* increasing on the wire); every pending id belongs to one suspended      *)
(* call of its own; a call's promise is settled at most once, by the       *)
(* response carrying its id or by teardown, and once settled no later      *)
(* message changes its outcome.                                            *)
(***************************************************************************)
IdsInOrder ==
    /\ nextId = Len(sent) + 1
    /\ \A i \in 1..Len(sent) : sent[i].id = i

PendingOwnIds ==
    /\ DOMAIN pending \subseteq 1..(nextId - 1)
    /\ \A id \in DOMAIN pending :
          /\ calls[pending[id]].state = "suspended"
          /\ calls[pending[id]].id = id
    /\ \A i, j \in DOMAIN pending : pending[i] = pending[j] => i = j

SettledOnce ==
    \A c \in Callers :
       /\ calls[c].n <= 1
       /\ Settled(calls[c]) =>
             /\ calls[c].id # 0 => calls[c].n = 1
             /\ calls'[c] \in {calls[c], IdleCall}
       /\ (calls[c].state = "suspended" /\ Settled(calls'[c])) =>
             calls'[c].by \in {calls[c].id, -1}

C25_IdsUniqueSettledOnce ==
    /\ [](IdsInOrder /\ PendingOwnIds)
    /\ [][SettledOnce]_vars

\* Two commands were transmitted, the first has been answered and the second
\* is pending: a second response with id 1 can arrive now.
C25_Witness ==
    /\ Len(sent) = 2
    /\ DOMAIN pending = {2}
    /\ \E c \in Callers :
          calls[c].state = "resolved" /\ calls[c].id = 1 /\ calls[c].n = 1



(***************************************************************************)
(* C26.  Teardown is idempotent.  A socket 'error' or 'close' event        *)
(* rejects every call that is pending, empties the pending map and         *)
(* touches no other call; no call is ever rejected twice; and a teardown   *)
(* that follows an earlier one changes nothing in the client (the pending  *)
(* map, the calls, the id counter, the listeners, the wire).               *)
(***************************************************************************)
ErrorEvent == ~wsErrored /\ wsErrored'
CloseEvent == readyState # "CLOSED" /\ readyState' = "CLOSED"
TornDown == wsErrored \/ readyState \in {"CLOSING", "CLOSED"}
IsPending(c) == \E id \in DOMAIN pending : pending[id] = c

C26_TeardownIdempotent ==
    /\ [][(ErrorEvent \/ CloseEvent) =>
             /\ pending' = EmptyMap
             /\ \A c \in Callers :
                   IF IsPending(c)
                   THEN /\ calls'[c].state = "rejected"
                        /\ calls'[c].by = -1
                        /\ calls'[c].n = 1
                   ELSE calls'[c] = calls[c]
             /\ TornDown =>
                   UNCHANGED <<pending, calls, nextId, listeners, sent>>]_vars
    /\ [](\A c \in Callers : calls[c].n <= 1)

\* 'error' then 'close': the call is still rejected with the error's
\* message, once.
C26_Witness ==
    /\ wsErrored
    /\ readyState = "CLOSED"
    /\ \E c \in Callers :
          /\ calls[c].state = "rejected"
          /\ calls[c].err = WsError
          /\ calls[c].by = -1
          /\ calls[c].n = 1



(***************************************************************************)
(* C27.  While a waitForNetworkIdle is pending its counter is never        *)
(* negative and its idle timer is armed only when the counter is zero.  A  *)
(* request-start event adds one and cancels the idle timer; a finish or    *)
(* fail event subtracts one, not below zero, and arms the timer with       *)
(* idleMs exactly when the counter is then zero; the idle timer's          *)
(* callback resolves the wait only with the counter at zero.               *)
(***************************************************************************)
FloorZero(n) == IF n > 0 THEN n ELSE 0

\* A finish or fail event was dispatched to onFinish in this step.
FinishDispatched ==
    /\ Waiting
    /\ HFinish \in Handlers("Network.loadingFinished")
    /\ sinceFinish' = 0
    /\ sinceFinish # 0

C27_TimerOnlyAtZero ==
    /\ [](Waiting => /\ inflight >= 0
                     /\ timer # NoTimer => inflight = 0)
    /\ [][/\ (Waiting /\ inflight' > inflight) =>
                /\ inflight' = inflight + 1
                /\ timer' = NoTimer
          /\ (Waiting /\ Waiting' /\ inflight' < inflight) =>
                /\ inflight' = inflight - 1
                /\ timer' = IF inflight' = 0 THEN op.idleMs ELSE NoTimer
          /\ FinishDispatched =>
                /\ inflight' = FloorZero(inflight - 1)
                /\ timer' = IF inflight' = 0 THEN op.idleMs ELSE NoTimer
          /\ (Waiting /\ timer = 0 /\ resolved' > resolved) => inflight = 0]_vars

\* A counted request has finished, the counter is back at zero and the idle
\* timer has been armed again with the full idleMs, after time had passed.
C27_Witness ==
    /\ Waiting
    /\ counted
    /\ inflight = 0
    /\ sinceFinish = 0
    /\ sinceSetup > 0
    /\ timer = op.idleMs



(***************************************************************************)
(* C28.  formatAriaSnapshot never returns more than `limit` entries, and   *)
(* the limit snapshot passes is the requested one rounded down and         *)
(* clamped to 1..2000, 500 when none is requested.                         *)
(***************************************************************************)
Requested == ax.req.k # "direct" /\ ax.stage # "request"

\* The requested maximum clamped to 1..2000, from its value.
ClampedRequest ==
    IF ax.req.k = "none" THEN 500
    ELSE IF ax.req.twice < 2 THEN 1
    ELSE IF ax.req.twice >= 4000 THEN 2000
    ELSE IF ax.req.twice % 2 = 0 THEN ax.req.twice \div 2
    ELSE (ax.req.twice - 1) \div 2

C28_AtMostLimitEntries ==
    /\ ax.stage \in {"formatted", "built"} => Len(ax.out) <= ax.limit
    /\ (Requested /\ ax.req.k # "nan") =>
          /\ ax.limit = ClampedRequest
          /\ ax.limit \in 1..2000
    /\ (Requested /\ ax.stage \in {"formatted", "built"}) =>
          Len(ax.out) <= ClampedRequest

\* 2000.5 nodes were requested of a tree that never ends: 2000 entries.
C28_Witness ==
    /\ ax.stage = "formatted"
    /\ ax.req = LimitOf(4001)
    /\ Len(ax.nodes) = 2
    /\ Len(ax.out) = 2000



(***************************************************************************)
(* C29.  In a built snapshot a node's line carries a token if and only if  *)
(* the node is emitted, its role is interactive or it is a content role    *)
(* with a non-empty name, and it has a backend DOM node id; the map holds  *)
(* the tokens of the lines and nothing else, so an eligible node without   *)
(* a backend id is emitted with neither token nor map entry.  Checked on   *)
(* the inputs where a node's depth tells which node it is.                 *)
(***************************************************************************)
ByDepthBuilt == ax.stage = "built" /\ ax.nodes \in ChainInputs \cup RoleInputs

\* The lines of the node that formatAriaSnapshot put at place i.
LinesOf(i) ==
    {k \in 1..Len(ax.snap.lines) : ax.snap.lines[k].depth = ax.out[i].depth}

Emitted(i) == LinesOf(i) # {}
Tokened(i) == \E k \in LinesOf(i) : ax.snap.lines[k].ref # <<>>

Eligible(node) ==
    \/ ToLowerCase(node.role) \in INTERACTIVE_ROLES
    \/ ToLowerCase(node.role) \in CONTENT_ROLES /\ node.name # ""

HasHandle(node) == node.backend # 0

C29_TokenIffEligibleWithHandle ==
    ByDepthBuilt =>
        /\ \A i \in 1..Len(ax.out) :
              /\ Cardinality(LinesOf(i)) <= 1
              /\ Tokened(i) <=>
                    (Emitted(i) /\ Eligible(ax.out[i]) /\ HasHandle(ax.out[i]))
              /\ Emitted(i) <=> ~Skipped(ax.out[i])
        /\ DOMAIN ax.snap.refs =
              {ax.snap.lines[k].ref :
                  k \in {j \in 1..Len(ax.snap.lines) : ax.snap.lines[j].ref # <<>>}}
        /\ \A r \in DOMAIN ax.snap.refs : ax.snap.refs[r] # 0

\* A named heading without a backend id is emitted bare, and the button
\* under it gets the first token.
C29_Witness ==
    /\ ByDepthBuilt
    /\ Len(ax.out) = 4
    /\ Len(ax.snap.lines) >= 3
    /\ ax.out[2].role = "heading" /\ ax.out[2].name = "A" /\ ax.out[2].backend = 0
    /\ ax.snap.lines[2].role = "heading" /\ ax.snap.lines[2].ref = <<>>
    /\ ax.snap.lines[3].role = "button" /\ ax.snap.lines[3].ref = <<"e", "1">>
    /\ DOMAIN ax.snap.refs = {<<"e", "1">>}



(***************************************************************************)
(* C30.  click puts on the wire, in this order, DOM.scrollIntoViewIfNeeded *)
(* and DOM.getContentQuads for the node, a mousePressed and a              *)
(* mouseReleased event, each command only after the response to the one    *)
(* before it; both events carry the left button and the same point, the    *)
(* mean of the four corners of the first quad returned.  When the          *)
(* response holds no quad, or an empty first quad, click fails and no       *)
(* pointer event is transmitted.                                           *)
(***************************************************************************)
ClickWire ==
    <<"DOM.scrollIntoViewIfNeeded", "DOM.getContentQuads",
      "Input.dispatchMouseEvent", "Input.dispatchMouseEvent">>

ClickRunning ==
    /\ op.name = "click"
    /\ pc \in {"click_scroll", "click_quads", "click_press", "click_release"}

ClickSeen == ClickRunning \/ (pc = "done" /\ ret.op = "click")

\* The mean of the four corners of q is the point (x, y).
IsCentroid(q, x, y) ==
    /\ 4 * x = q[1] + q[3] + q[5] + q[7]
    /\ 4 * y = q[2] + q[4] + q[6] + q[8]

NoQuadIn(result) ==
    \/ ~Has(result, "quads")
    \/ result.quads = <<>>
    \/ result.quads[1] = <<>>

ClickInOrder ==
    ClickSeen =>
        /\ Len(sent) <= 4
        /\ \A i \in 1..Len(sent) : sent[i].method = ClickWire[i]
        /\ Len(sent) >= 2 =>
              sent[2].params.backendNodeId = sent[1].params.backendNodeId
        /\ Len(sent) >= 3 =>
              /\ sent[3].params.type = "mousePressed"
              /\ sent[3].params.button = "left"
        /\ Len(sent) = 4 =>
              sent[4].params = [sent[3].params EXCEPT !.type = "mouseReleased"]

ClickStepwise ==
    /\ (ClickRunning /\ Len(sent') > Len(sent)) => Call.state = "resolved"
    /\ (ClickRunning /\ pc = "click_quads" /\ pc' # pc /\ Call.state = "resolved") =>
          IF NoQuadIn(Call.result)
          THEN /\ pc' = "done"
               /\ ret'.outcome = "error"
               /\ ret'.err = NoQuads
               /\ sent' = sent
               /\ Len(sent) = 2
          ELSE readyState = "OPEN" =>
                  /\ Len(sent') = 3
                  /\ IsCentroid(Call.result.quads[1],
                                sent'[3].params.x, sent'[3].params.y)
    /\ (ClickRunning /\ pc' = "done" /\ ret'.outcome = "ok") =>
          /\ pc = "click_release"
          /\ Call.state = "resolved"
          /\ Len(sent) = 4

C30_ClickSequence == []ClickInOrder /\ [][ClickStepwise]_vars

\* A click that returned normally after its four commands, at the centre
\* (3, 2) of the first of two quads.
C30_Witness ==
    /\ pc = "done"
    /\ ret.op = "click"
    /\ ret.outcome = "ok"
    /\ Len(sent) = 4
    /\ sent[3].params = MouseEvent("mousePressed", 3, 2)
    /\ sent[4].params = MouseEvent("mouseReleased", 3, 2)



(***************************************************************************)
(* C31.  check(ref, checked) reads the element's checked state after       *)
(* DOM.resolveNode and goes on to a click, and so to pointer events,       *)
(* exactly when the state read (false when none is read) differs from the  *)
(* requested one; otherwise it returns with nothing more transmitted.      *)
(***************************************************************************)
CheckRunning ==
    /\ op.name = "check"
    /\ pc \in {"obj_resolve", "chk_read", "click_scroll", "click_quads",
               "click_press", "click_release"}

CheckSeen == CheckRunning \/ (pc = "done" /\ ret.op = "check")

ReadAsChecked(result) == Has(result, "value") /\ result.value = "true"

PointerEvents(log) ==
    {i \in 1..Len(log) : log[i].method = "Input.dispatchMouseEvent"}

CheckWire ==
    CheckSeen =>
        /\ Len(sent) >= 1 => sent[1].method = "DOM.resolveNode"
        /\ Len(sent) >= 2 => sent[2].method = "Runtime.callFunctionOn"
        /\ \A i \in PointerEvents(sent) : i > 3

CheckStepwise ==
    (op.name = "check" /\ pc = "chk_read" /\ pc' # pc /\ Call.state = "resolved") =>
        IF ReadAsChecked(Call.result) # op.checked
        THEN /\ pc' = "click_scroll"
             /\ readyState = "OPEN" =>
                   /\ Len(sent') = 3
                   /\ sent'[3].method = "DOM.scrollIntoViewIfNeeded"
        ELSE /\ pc' = "done"
             /\ ret'.outcome = "ok"
             /\ sent' = sent
             /\ PointerEvents(sent) = {}

C31_ClickOnlyWhenDifferent == []CheckWire /\ [][CheckStepwise]_vars

\* check(ref, true) on an element read as unchecked: a whole click followed.
C31_Witness ==
    /\ pc = "done"
    /\ ret.op = "check"
    /\ ret.outcome = "ok"
    /\ Len(sent) = 6
    /\ sent[5].params.type = "mousePressed"
    /\ sent[6].params.type = "mouseReleased"



(***************************************************************************)
(* C32.  click, type, select and check each fail when the node cannot be   *)
(* resolved to an object handle and each fail when the node has no         *)
(* geometry: none of them returns normally on such a node.                 *)
(***************************************************************************)
ActionReturned == pc = "done" /\ ret.op \in ActionNames /\ ret.outcome = "ok"

C32_FailsWithoutHandleOrGeometry ==
    ActionReturned => dom.handle # "no" /\ dom.geometry # "no"



(***************************************************************************)
(* C33.  Whatever the tab table holds, onTargetInfoChanged keeps its keys, *)
(* leaves every record but the one of the event's target as it is and      *)
(* changes nothing of that one but url and title (each only when the       *)
(* event carries it); onTargetDestroyed removes the record of the event's  *)
(* target and leaves the others as they are.  A step of the table that is  *)
(* not a continuation of the caller's own operation is one of the two.     *)
(***************************************************************************)
TargetEventParams ==
    {TargetParams(t, url, title) :
        t \in TargetIds \cup {Undef}, url \in Urls \cup {Undef},
        title \in Titles \cup {Undef}}

InfoChangedFrame ==
    \A params \in TargetEventParams :
        LET after == OnTargetInfoChanged(tabs, params)
        IN  /\ DOMAIN after = DOMAIN tabs
            /\ \A u \in DOMAIN tabs :
                  /\ after[u].tabId = tabs[u].tabId
                  /\ after[u].sessionId = tabs[u].sessionId
                  /\ u # params.targetId => after[u] = tabs[u]
                  /\ u = params.targetId =>
                        /\ after[u].url =
                              IF params.url = Undef THEN tabs[u].url ELSE params.url
                        /\ after[u].title =
                              IF params.title = Undef THEN tabs[u].title
                              ELSE params.title

DestroyedFrame ==
    \A params \in TargetEventParams :
        LET after == OnTargetDestroyed(tabs, params)
        IN  /\ DOMAIN after = DOMAIN tabs \ {params.targetId}
            /\ \A u \in DOMAIN after : after[u] = tabs[u]

TableEventStep ==
    (pc' = pc /\ tabs' # tabs) =>
        \E params \in TargetEventParams :
            \/ tabs' = OnTargetInfoChanged(tabs, params)
            \/ /\ tabs' = OnTargetDestroyed(tabs, params)
               /\ targets[params.targetId] = "alive"
               /\ targets'[params.targetId] = "dead"

C33_TargetEventsFrame ==
    /\ [](InfoChangedFrame /\ DestroyedFrame)
    /\ [][TableEventStep]_vars

\* Two tabs are recorded; an event gave the first its url and title, and the
\* record of the second is as attach left it.
C33_Witness ==
    /\ DOMAIN tabs = {"T1", "T2"}
    /\ tabs["T1"] = [tabId |-> "T1", sessionId |-> SessionOf("T1"),
                     url |-> "http://a", title |-> "t"]
    /\ tabs["T2"].title = ""
    /\ tabs["T2"].sessionId = SessionOf("T2")



(***************************************************************************)
(* C34.  click, type, select and check called with a token that is         *)
(* malformed or is not a key of the reference map fail at once: nothing    *)
(* is transmitted, no id is taken, and the reference map and the current   *)
(* tab and session are as before.  With a token of the map they transmit   *)
(* their first command instead.                                            *)
(***************************************************************************)
ActionStarts ==
    /\ pc = "idle"
    /\ \/ pc' = "done" /\ ret'.op \in ActionNames
       \/ pc' \in {"click_scroll", "obj_resolve"} /\ op'.name \in ActionNames

TokenPassed == IF pc' = "done" THEN ret'.ref ELSE op'.ref

BadToken(raw) == ParseRef(raw) = NoRef \/ ParseRef(raw) \notin DOMAIN refs

C34_BadTokenFailsBeforeSending ==
    [][ActionStarts =>
          IF BadToken(TokenPassed)
          THEN /\ pc' = "done"
               /\ ret'.outcome = "error"
               /\ ret'.err \in {InvalidRef, RefNotFound}
               /\ sent = <<>> /\ sent' = <<>>
               /\ UNCHANGED <<nextId, pending, refs, currentTabId,
                              currentSessionId, tabs>>
          ELSE /\ pc' # "done"
               /\ readyState = "OPEN" => Len(sent') = 1]_vars

\* check with e3 after a snapshot whose map holds other tokens: failed, with
\* nothing on the wire.
C34_Witness ==
    /\ pc = "done"
    /\ ret.op = "check"
    /\ ret.outcome = "error"
    /\ ret.err = RefNotFound
    /\ ret.ref = <<"e", "3">>
    /\ refs # EmptyMap
    /\ sent = <<>>



(***************************************************************************)
(* C35.  When navigate or reload has finished, with a normal return or     *)
(* with an error, no load handler is left in the registry of               *)
(* Page.loadEventFired.                                                    *)
(***************************************************************************)
LoadHandlers == {h \in Handlers("Page.loadEventFired") : h.h = "load"}

LoadOpFinished == pc = "done" /\ ret.op \in {"navigate", "reload"}

C35_LoadListenerRemoved == LoadOpFinished => LoadHandlers = {}



(***************************************************************************)
(* C36.  A navigate or reload issued on the session of the current tab     *)
(* goes past its wait for the load only on a load event of that session.   *)
(***************************************************************************)
LoadWaitOver == pc \in {"nav_load", "rl_load"} /\ op.loaded

C36_LoadOfOwnSession ==
    (LoadWaitOver /\ currentSessionId # NoSession) =>
        op.loadBy = currentSessionId



(***************************************************************************)
(* C37.  The walk of formatAriaSnapshot ends on every raw node list, with  *)
(* child references that form a cycle, list a node under several parents   *)
(* or name unknown ids: after `limit` turns of its loop at most the loop's *)
(* condition is false, what it returns is the output of those turns, and   *)
(* the turns that produced output are `limit` at most.                     *)
(***************************************************************************)
Formatted == ax.stage \in {"formatted", "built"}

\* The loop's state after ax.limit turns from the root.
AfterLimitTurns ==
    TraverseTimes(ax.nodes, ax.limit,
                  [stack |-> <<[id |-> ax.nodes[RootIndex(ax.nodes)].nodeId,
                                depth |-> 0]>>,
                   out |-> <<>>],
                  ax.limit)

C37_WalkEndsWithinLimit ==
    (Formatted /\ RootIndex(ax.nodes) # 0) =>
        /\ AfterLimitTurns.stack = <<>> \/ Len(AfterLimitTurns.out) >= ax.limit
        /\ AfterLimitTurns.out = ax.out
        /\ Len(ax.out) <= ax.limit

\* A node lists itself, an id is listed by two nodes, an unknown id is
\* listed, and the walk has gone on to the limit, past the number of nodes.
C37_Witness ==
    /\ ax.stage = "formatted"
    /\ Len(ax.nodes) = 3
    /\ \E i \in 1..3 : ax.nodes[i].nodeId \in Range(ax.nodes[i].childIds)
    /\ \E i, j \in 1..3 :
          /\ i # j
          /\ Range(ax.nodes[i].childIds) \cap Range(ax.nodes[j].childIds)
                 \cap AxIds # {}
    /\ \E i \in 1..3 : UnknownId \in Range(ax.nodes[i].childIds)
    /\ ax.limit = MaxAxLimit
    /\ Len(ax.out) = MaxAxLimit



(***************************************************************************)
(* C38.  waitForNetworkIdle arms the idle timer when it registers its      *)
(* listeners.  While the wait is pending and no request-start, finish or   *)
(* fail event has been delivered to it, the idle timer is running and is   *)
(* due idleMs after the registration; the wait then resolves by the idle   *)
(* timer at idleMs when idleMs is less than timeoutMs, and at timeoutMs    *)
(* otherwise.                                                              *)
(***************************************************************************)
\* No network event has reached the handlers of the pending wait.
NoEventYet == Waiting /\ inflight = 0 /\ sinceFinish = NoTimer

====
